---- MODULE Spec2Model ----
(***************************************************************************)
(* A model of the interbtc squid mappings: the canonical ordering and      *)
(* string keys of currencies (src/mappings/utils/pools.ts, encoding), the  *)
(* exchange-rate log and the loan, market and dex event handlers.          *)
(*                                                                         *)
(* A call that can throw returns a result record: Ok(v) for a returned     *)
(* value v, Err(e) for a thrown Error with message kind e.                 *)
(***************************************************************************)
EXTENDS Integers, Sequences, FiniteSets, TLC

\* Largest ForeignAsset / LendToken id of the model (ids start at 1).
MaxAssetId == 2
\* Largest stable pool id of the model (pool ids start at 0).
MaxPoolId == 1

Ok(v) == [ok |-> TRUE, val |-> v]
Err(e) == [ok |-> FALSE, err |-> e]

(***************************************************************************)
(* The Currency model type: a union of records tagged by isTypeOf.         *)
(***************************************************************************)
Token == {"DOT", "IBTC", "INTR", "KSM", "KBTC", "KINT"}

NativeToken(t) == [isTypeOf |-> "NativeToken", token |-> t]
ForeignAsset(a) == [isTypeOf |-> "ForeignAsset", asset |-> a]
LendToken(i) == [isTypeOf |-> "LendToken", lendTokenId |-> i]
StableLpToken(p) == [isTypeOf |-> "StableLpToken", poolId |-> p]
LpTokenPair(t0, t1) == [isTypeOf |-> "LpTokenPair", token0 |-> t0, token1 |-> t1]

\* The model type LpToken: what lpTokenId.encode can return.
LpTokens ==
    {NativeToken(t) : t \in Token}
        \cup {ForeignAsset(a) : a \in 1..MaxAssetId}
        \cup {StableLpToken(p) : p \in 0..MaxPoolId}

\* The five variants of Currency.
KnownCurrencies ==
    LpTokens
        \cup {LendToken(i) : i \in 1..MaxAssetId}
        \cup {LpTokenPair(x, y) : x \in LpTokens, y \in LpTokens}

\* Currency values whose isTypeOf is none of the five (a later model version).
UnknownCurrencies == {[isTypeOf |-> k] : k \in {"FutureTokenA", "FutureTokenB"}}

Currencies == KnownCurrencies \cup UnknownCurrencies

(***************************************************************************)
(* The raw CurrencyId of the chain types (v1020000 / v1021000).            *)
(***************************************************************************)
RawToken(t) == [kind |-> "Token", value |-> [kind |-> t]]
RawForeignAsset(a) == [kind |-> "ForeignAsset", value |-> a]
RawLendToken(i) == [kind |-> "LendToken", value |-> i]
RawStableLpToken(p) == [kind |-> "StableLpToken", value |-> p]
RawLpToken(r0, r1) == [kind |-> "LpToken", value |-> <<r0, r1>>]
RawUnknown == [kind |-> "FutureAsset", value |-> 1]

\* The raw LpToken type, and a value of it of a kind the encoder does not know.
RawLpTokens ==
    {RawToken(t) : t \in Token}
        \cup {RawForeignAsset(a) : a \in 1..MaxAssetId}
        \cup {RawStableLpToken(p) : p \in 0..MaxPoolId}

RawAssets ==
    RawLpTokens
        \cup {RawLendToken(i) : i \in 1..MaxAssetId}
        \cup {RawLpToken(x, y) : x \in RawLpTokens \cup {RawUnknown},
                                 y \in RawLpTokens \cup {RawUnknown}}
        \cup {RawUnknown}

(***************************************************************************)
(* pools.ts: the replicated orders of the parachain.                       *)
(***************************************************************************)
indexToCurrencyTypeMap ==
    (0 :> "NativeToken") @@ (1 :> "ForeignAsset") @@ (2 :> "LendToken")
        @@ (3 :> "LpToken") @@ (4 :> "StableLpToken")

currencyTypeToIndexMap ==
    [t \in {indexToCurrencyTypeMap[i] : i \in DOMAIN indexToCurrencyTypeMap} |->
        CHOOSE i \in DOMAIN indexToCurrencyTypeMap : indexToCurrencyTypeMap[i] = t]

indexToNativeTokenMap ==
    (0 :> "DOT") @@ (1 :> "IBTC") @@ (2 :> "INTR")
        @@ (10 :> "KSM") @@ (11 :> "KBTC") @@ (12 :> "KINT")

nativeTokenToIndexMap ==
    [t \in {indexToNativeTokenMap[i] : i \in DOMAIN indexToNativeTokenMap} |->
        CHOOSE i \in DOMAIN indexToNativeTokenMap : indexToNativeTokenMap[i] = t]

\* A slip of compareCurrencyType: the magnitude of the rank difference only.
compareCurrencyTypeAbs(currency0, currency1) ==
    IF currency0.isTypeOf = currency1.isTypeOf THEN Ok(0)
    ELSE IF currency0.isTypeOf \notin DOMAIN currencyTypeToIndexMap
        THEN Err("Unable to find index for given currency type")
    ELSE IF currency1.isTypeOf \notin DOMAIN currencyTypeToIndexMap
        THEN Err("Unable to find index for given currency type")
    ELSE LET d == currencyTypeToIndexMap[currency0.isTypeOf]
                    - currencyTypeToIndexMap[currency1.isTypeOf]
         IN  Ok(IF d < 0 THEN -d ELSE d)

compareCurrencyType(currency0, currency1) ==
    IF currency0.isTypeOf = currency1.isTypeOf THEN Ok(0)
    ELSE IF currency0.isTypeOf \notin DOMAIN currencyTypeToIndexMap
        THEN Err("Unable to find index for given currency type")
    ELSE IF currency1.isTypeOf \notin DOMAIN currencyTypeToIndexMap
        THEN Err("Unable to find index for given currency type")
    ELSE Ok(currencyTypeToIndexMap[currency0.isTypeOf]
                - currencyTypeToIndexMap[currency1.isTypeOf])

\* A slip of currencyToIndex: the default branch returns 0 instead of throwing.
currencyToIndexNoThrow(currency) ==
    CASE currency.isTypeOf = "NativeToken" ->
            IF currency.token \in DOMAIN nativeTokenToIndexMap
            THEN Ok(nativeTokenToIndexMap[currency.token])
            ELSE Err("currencyToIndex: Unknown or unhandled native token")
      [] currency.isTypeOf = "ForeignAsset" -> Ok(currency.asset)
      [] currency.isTypeOf = "LendToken" -> Ok(currency.lendTokenId)
      [] currency.isTypeOf = "StableLpToken" -> Ok(currency.poolId)
      [] OTHER -> Ok(0)

currencyToIndex(currency) ==
    CASE currency.isTypeOf = "NativeToken" ->
            IF currency.token \in DOMAIN nativeTokenToIndexMap
            THEN Ok(nativeTokenToIndexMap[currency.token])
            ELSE Err("currencyToIndex: Unknown or unhandled native token")
      [] currency.isTypeOf = "ForeignAsset" -> Ok(currency.asset)
      [] currency.isTypeOf = "LendToken" -> Ok(currency.lendTokenId)
      [] currency.isTypeOf = "StableLpToken" -> Ok(currency.poolId)
      [] OTHER -> Err("currencyToIndex: Unknown or unsupported currency type")

\* A slip of compareCurrencies: the indices are compared before the types.
compareCurrenciesIndexFirst(currency0, currency1) ==
    LET index0 == currencyToIndex(currency0)
        index1 == currencyToIndex(currency1)
        typeCompare == compareCurrencyType(currency0, currency1)
    IN  IF ~index0.ok THEN index0
        ELSE IF ~index1.ok THEN index1
        ELSE IF index0.val # index1.val THEN Ok(index0.val - index1.val)
        ELSE typeCompare

compareCurrencies(currency0, currency1) ==
    LET typeCompare == compareCurrencyType(currency0, currency1)
        index0 == currencyToIndex(currency0)
        index1 == currencyToIndex(currency1)
    IN  IF ~typeCompare.ok THEN typeCompare
        ELSE IF typeCompare.val # 0 THEN typeCompare
        ELSE IF ~index0.ok THEN index0
        ELSE IF ~index1.ok THEN index1
        ELSE Ok(index0.val - index1.val)

\* A slip of orderCurrencies: the pair is returned as given.
orderCurrenciesNoSwap(currency0, currency1) ==
    LET c == compareCurrencies(currency0, currency1)
    IN  IF ~c.ok THEN c ELSE Ok(<<currency0, currency1>>)

orderCurrencies(currency0, currency1) ==
    LET c == compareCurrencies(currency0, currency1)
    IN  IF ~c.ok THEN c
        ELSE IF c.val > 0 THEN Ok(<<currency1, currency0>>)
        ELSE Ok(<<currency0, currency1>>)

(***************************************************************************)
(* encoding: raw asset to Currency, Currency to its string.                *)
(***************************************************************************)
lpTokenId_encode(lpToken) ==
    CASE lpToken.kind = "StableLpToken" -> Ok(StableLpToken(lpToken.value))
      [] lpToken.kind = "ForeignAsset" -> Ok(ForeignAsset(lpToken.value))
      [] lpToken.kind = "Token" -> Ok(NativeToken(lpToken.value.kind))
      [] OTHER -> Err("Unknown LpToken type to encode")

currencyId_encode(asset) ==
    CASE asset.kind = "LendToken" -> Ok(LendToken(asset.value))
      [] asset.kind = "ForeignAsset" -> Ok(ForeignAsset(asset.value))
      [] asset.kind = "Token" -> Ok(NativeToken(asset.value.kind))
      [] asset.kind = "StableLpToken" -> lpTokenId_encode(asset)
      [] asset.kind = "LpToken" ->
            LET token0 == lpTokenId_encode(asset.value[1])
                token1 == lpTokenId_encode(asset.value[2])
            IN  IF ~token0.ok THEN token0
                ELSE IF ~token1.ok THEN token1
                ELSE Ok(LpTokenPair(token0.val, token1.val))
      [] OTHER -> Err("Unknown currency type to encode")

\* A slip of currencyToString: a lend token is written as its bare id, as a
\* foreign asset is.
RECURSIVE currencyToStringBareIds(_)
currencyToStringBareIds(currency) ==
    CASE currency.isTypeOf = "LendToken" -> Ok(ToString(currency.lendTokenId))
      [] currency.isTypeOf = "ForeignAsset" -> Ok(ToString(currency.asset))
      [] currency.isTypeOf = "NativeToken" -> Ok(currency.token)
      [] currency.isTypeOf = "StableLpToken" ->
            Ok("poolId_" \o ToString(currency.poolId))
      [] currency.isTypeOf = "LpTokenPair" ->
            LET token0string == currencyToStringBareIds(currency.token0)
                token1string == currencyToStringBareIds(currency.token1)
            IN  IF ~token0string.ok THEN token0string
                ELSE IF ~token1string.ok THEN token1string
                ELSE Ok("lpToken__" \o token0string.val \o "__" \o token1string.val)
      [] OTHER -> Err("Unknown currency type to stringify")

RECURSIVE currencyToString(_)
currencyToString(currency) ==
    CASE currency.isTypeOf = "LendToken" ->
            Ok("lendToken_" \o ToString(currency.lendTokenId))
      [] currency.isTypeOf = "ForeignAsset" -> Ok(ToString(currency.asset))
      [] currency.isTypeOf = "NativeToken" -> Ok(currency.token)
      [] currency.isTypeOf = "StableLpToken" ->
            Ok("poolId_" \o ToString(currency.poolId))
      [] currency.isTypeOf = "LpTokenPair" ->
            LET token0string == currencyToString(currency.token0)
                token1string == currencyToString(currency.token1)
            IN  IF ~token0string.ok THEN token0string
                ELSE IF ~token1string.ok THEN token1string
                ELSE Ok("lpToken__" \o token0string.val \o "__" \o token1string.val)
      [] OTHER -> Err("Unknown currency type to stringify")

\* A slip of inferGeneralPoolId: the currencies are not ordered first.
inferGeneralPoolIdUnordered(currency0, currency1) ==
    LET ordered == orderCurrencies(currency0, currency1)
        firstCurrencyString == currencyToString(currency0)
        secondCurrencyString == currencyToString(currency1)
    IN  IF ~ordered.ok THEN ordered
        ELSE IF ~firstCurrencyString.ok THEN firstCurrencyString
        ELSE IF ~secondCurrencyString.ok THEN secondCurrencyString
        ELSE Ok("(" \o firstCurrencyString.val \o "," \o secondCurrencyString.val \o ")")

inferGeneralPoolId(currency0, currency1) ==
    LET ordered == orderCurrencies(currency0, currency1)
        firstCurrencyString == currencyToString(ordered.val[1])
        secondCurrencyString == currencyToString(ordered.val[2])
    IN  IF ~ordered.ok THEN ordered
        ELSE IF ~firstCurrencyString.ok THEN firstCurrencyString
        ELSE IF ~secondCurrencyString.ok THEN secondCurrencyString
        ELSE Ok("(" \o firstCurrencyString.val \o "," \o secondCurrencyString.val \o ")")

(***************************************************************************)
(* Events.  A raw event carries the name of its kind, the spec version of  *)
(* its encoding and its arguments: a positional tuple in V1020000, named   *)
(* fields in V1021000.  V1022000 stands for a version no handler decodes.  *)
(***************************************************************************)
Versions == {"V1020000", "V1021000", "V1022000"}

isV1020000(rawEvent) == rawEvent.version = "V1020000"
isV1021000(rawEvent) == rawEvent.version = "V1021000"

\* The accounts, currencies and amounts the events of the model carry.
EventAccounts == {1, 2}
EventCurrencyIds == {RawToken("DOT"), RawLendToken(1), RawUnknown}
EventAmounts == {3}

AccountCurrencyAmountArgs(v, accountId, cur, amount) ==
    IF v = "V1020000"
    THEN <<accountId, cur, amount>>
    ELSE [accountId |-> accountId, currencyId |-> cur, amount |-> amount]

\* The events (account, currency, amount) of one kind of the loans pallet:
\* every currency in V1021000, one event in each other version.
AccountCurrencyAmountEvents(name) ==
    UNION {{[name |-> name, version |-> v,
             args |-> AccountCurrencyAmountArgs(v, acc, cur, amount)] :
                acc \in {1}, amount \in EventAmounts,
                cur \in IF v = "V1021000" THEN EventCurrencyIds ELSE {RawToken("DOT")}} :
           v \in Versions}

\* The exchange rate is a fixed-point number of the chain (one is 10^18);
\* the model scales one to 10^4 and counts rates in hundredths.
FixedPointOne == 10000
RateScale == 100

InterestAccruedArgs(cur, x) ==
    [underlyingCurrencyId |-> cur, totalBorrows |-> 1, totalReserves |-> 1,
     borrowIndex |-> 1, utilizationRatio |-> 1, borrowRate |-> 1,
     supplyRate |-> 1, exchangeRate |-> x]

InterestAccruedEvents ==
    {[name |-> "Loans.InterestAccrued", version |-> "V1021000",
      args |-> InterestAccruedArgs(cur, x)] :
        cur \in {RawToken("DOT"), RawToken("IBTC")}, x \in {500, 700}}
    \cup {[name |-> "Loans.InterestAccrued", version |-> "V1021000",
           args |-> InterestAccruedArgs(RawUnknown, 500)]}
    \cup {[name |-> "Loans.InterestAccrued", version |-> v,
           args |-> InterestAccruedArgs(RawToken("DOT"), 500)] :
            v \in Versions \ {"V1021000"}}

\* A market of the loans pallet: its lend token, state and caps.
RawMarket(lendId, stateKind, cap) ==
    [borrowCap |-> cap, supplyCap |-> cap, rateModel |-> [kind |-> "Jump"],
     closeFactor |-> 1, lendTokenId |-> RawLendToken(lendId),
     state |-> [kind |-> stateKind], reserveFactor |-> 1, collateralFactor |-> 1,
     liquidateIncentive |-> 1, liquidationThreshold |-> 1,
     liquidateIncentiveReservedFactor |-> 1]

MarketArgs(v, cur, market) ==
    IF v = "V1020000"
    THEN <<cur, market>>
    ELSE [underlyingCurrencyId |-> cur, market |-> market]

\* Loans.NewMarket and Loans.UpdatedMarket events: the market of DOT in every
\* version, and in V1021000 one of a currency the encoder does not know.
MarketEvents(name, stateKinds, cap) ==
    UNION {{[name |-> name, version |-> v,
             args |-> MarketArgs(v, cur, RawMarket(1, k, cap))] :
                k \in IF v = "V1022000" THEN {"Pending"} ELSE stateKinds,
                cur \in IF v = "V1021000" THEN {RawToken("DOT"), RawUnknown}
                                          ELSE {RawToken("DOT")}} :
           v \in Versions}

ActivatedMarketEvents ==
    {[name |-> "Loans.ActivatedMarket", version |-> "V1020000", args |-> RawToken("DOT")]}
    \cup {[name |-> "Loans.ActivatedMarket", version |-> v,
           args |-> [underlyingCurrencyId |-> cur]] :
            v \in {"V1021000", "V1022000"}, cur \in {RawToken("DOT"), RawToken("IBTC")}}

\* DexGeneral.AssetSwap: (account, recipient, swap path, balances).
SwapPaths ==
    {<<RawToken("DOT"), RawToken("IBTC")>>,
     <<RawToken("DOT"), RawToken("IBTC"), RawToken("DOT")>>,
     <<RawToken("DOT"), RawLendToken(1)>>,
     <<RawToken("DOT"), RawUnknown>>}

AssetSwapEvents ==
    {[name |-> "DexGeneral.AssetSwap", version |-> "V1021000",
      args |-> <<acc, acc, path, balances>>] :
        acc \in {1}, path \in SwapPaths, balances \in {<<3, 5>>, <<3, 5, 4>>}}
    \cup {[name |-> "DexGeneral.AssetSwap", version |-> v,
           args |-> <<1, 1, <<RawToken("DOT"), RawToken("IBTC")>>, <<3, 5>>>>] :
            v \in Versions \ {"V1021000"}}

\* DexStable.CurrencyExchange.
CurrencyExchangeArgs(poolId, inIndex, outIndex) ==
    [poolId |-> poolId, inIndex |-> inIndex, outIndex |-> outIndex,
     inAmount |-> 3, outAmount |-> 5, who |-> 1]

CurrencyExchangeEvents ==
    {[name |-> "DexStable.CurrencyExchange", version |-> "V1021000",
      args |-> CurrencyExchangeArgs(poolId, io[1], io[2])] :
        poolId \in 0..3, io \in {<<0, 1>>, <<0, 2>>}}
    \cup {[name |-> "DexStable.CurrencyExchange", version |-> v,
           args |-> CurrencyExchangeArgs(0, 0, 1)] : v \in Versions \ {"V1021000"}}

\* The chain's stable pools: pool 0 is a base pool, pool 1 a meta pool, pool 2
\* of a kind added after these mappings were written; there is no pool 3.
ChainPools ==
    (0 :> [kind |-> "Base", currencyIds |-> <<RawToken("DOT"), RawToken("IBTC")>>])
    @@ (1 :> [kind |-> "Meta",
              currencyIds |-> <<RawStableLpToken(0), RawForeignAsset(1)>>])
    @@ (2 :> [kind |-> "Future", currencyIds |-> <<RawToken("DOT"), RawToken("IBTC")>>])

\* What DexStablePoolsStorage is at a block: of the version the mappings know,
\* of a later version, or not defined.
StorageVersions == {"V1021000", "V1022000", "none"}

(***************************************************************************)
(* Collaborators of the handlers that are not part of the mappings.        *)
(***************************************************************************)
\* ss58 encoding of an account id.
address_interlay_encode(accountId) == "acc" \o ToString(accountId)

\* item.event.id of the n-th event delivered.
EventId(n) == "ev" \o ToString(n)

\* The symbol of a currency (a NativeToken's is its token name).
symbolFromCurrency(currency) ==
    CASE currency.isTypeOf = "NativeToken" -> currency.token
      [] currency.isTypeOf = "ForeignAsset" -> "asset" \o ToString(currency.asset)
      [] currency.isTypeOf = "LendToken" -> "q" \o ToString(currency.lendTokenId)
      [] OTHER -> "unknown"

\* What lendTokenDetails can answer for a lend token: its underlying currency,
\* or undefined when no market is known for it.
Undefined == [isTypeOf |-> "undefined"]
LendTokenDetails == {Undefined, NativeToken("DOT")}

\* EntityBuffer.pushEntity: stores or replaces the pending entity of (kind, id).
pushEntityKeepFirst(buf, kind, entity) ==
    [k \in DOMAIN buf \cup {<<kind, entity.id>>} |->
        IF k \in DOMAIN buf THEN buf[k] ELSE entity]

pushEntity(buf, kind, entity) ==
    [k \in DOMAIN buf \cup {<<kind, entity.id>>} |->
        IF k = <<kind, entity.id>> THEN entity ELSE buf[k]]

\* entityBuffer / ctx.store lookup of (kind, id): the entity, or Undefined.
getEntity(map, kind, id) ==
    IF <<kind, id>> \in DOMAIN map THEN map[<<kind, id>>] ELSE Undefined

\* rateModel.encode of a market's interest rate model.
rateModel_encode(rateModel) == [isTypeOf |-> rateModel.kind]

\* isPooledToken: fromJsonPooledToken accepts the value (it reads isTypeOf).
PooledTokenTypes == {"NativeToken", "ForeignAsset", "StableLpToken"}
isPooledToken(currency) ==
    /\ "isTypeOf" \in DOMAIN currency
    /\ currency.isTypeOf \in PooledTokenTypes

\* Cumulative amounts: currency key -> total.  Adds one amount to a total.
addPooledAmount(amounts, amount) ==
    LET key == currencyToString(amount.currency).val
    IN  [k \in DOMAIN amounts \cup {key} |->
            IF k = key
            THEN amount.atomicAmount + (IF k \in DOMAIN amounts THEN amounts[k] ELSE 0)
            ELSE amounts[k]]

RECURSIVE addPooledAmounts(_, _)
addPooledAmounts(amounts, list) ==
    IF list = <<>> THEN amounts
    ELSE addPooledAmounts(addPooledAmount(amounts, Head(list)), Tail(list))

\* The last known cumulative entity of (kind, id): the buffered one, else the
\* stored one, else Undefined.
latestEntity(buf, st, kind, id) ==
    IF <<kind, id>> \in DOMAIN buf THEN buf[<<kind, id>>] ELSE getEntity(st, kind, id)

\* A cumulative volume entity updated by a list of amounts: last known total
\* plus the amounts.
updatedVolume(buf, st, kind, id, list) ==
    LET latest == latestEntity(buf, st, kind, id)
    IN  [id |-> id,
         amounts |-> addPooledAmounts(IF latest = Undefined THEN <<>> ELSE latest.amounts,
                                      list)]

\* A cumulative trade count entity: last known count plus one.
updatedCount(buf, st, kind, id) ==
    LET latest == latestEntity(buf, st, kind, id)
    IN  [id |-> id, count |-> 1 + (IF latest = Undefined THEN 0 ELSE latest.count)]

updateCumulativeDexVolumesForStandardPool(st, swapDetails, buf) ==
    LET poolId == inferGeneralPoolId(swapDetails.from.currency, swapDetails.to.currency)
    IN  IF ~poolId.ok THEN poolId
        ELSE Ok(updatedVolume(buf, st, "CumulativeDexTradingVolumePerPool", poolId.val,
                              <<swapDetails.from, swapDetails.to>>))

updateCumulativeDexVolumesForStablePool(st, poolId, swapDetails, buf) ==
    Ok(updatedVolume(buf, st, "CumulativeDexTradingVolumePerPool", ToString(poolId),
                     <<swapDetails.from, swapDetails.to>>))

updateCumulativeDexVolumesPerAccount(st, amounts, accountId, buf) ==
    updatedVolume(buf, st, "CumulativeDexTradingVolumePerAccount", accountId, amounts)

updateCumulativeDexTotalVolumes(st, amounts, buf) ==
    updatedVolume(buf, st, "CumulativeDexTradingVolume", "total", amounts)

updateCumulativeDexTradeCountPerAccount(st, accountId, buf) ==
    updatedCount(buf, st, "CumulativeDexTradeCountPerAccount", accountId)

updateCumulativeDexTotalTradeCount(st, buf) ==
    updatedCount(buf, st, "CumulativeDexTradeCount", "total")

(***************************************************************************)
(* pools.ts: the stable pool currencies, cached by pool id.  The result is *)
(* the pair [Currency, CurrencyId] (or the error thrown) and the cache     *)
(* after the call.                                                         *)
(***************************************************************************)
CurrencyPair(raw) == [currency |-> currencyId_encode(raw).val, currencyId |-> raw]

isBasePool(pool) == pool.kind = "Base"
isMetaPool(pool) == pool.kind = "Meta"

setPoolCurrencies(cache, poolId, currencies) ==
    [k \in DOMAIN cache \cup {poolId} |-> IF k = poolId THEN currencies ELSE cache[k]]

\* A slip of the fetch: a pool that is absent or of an unexpected type is
\* cached with an empty list.
fetchStablePoolCurrencyCachingFailure(cache, chain, storageVersion, poolId, index) ==
    IF storageVersion = "none"
    THEN [result |-> Err("DexStable.Pools storage is not defined for this spec version"),
          cache |-> cache, fetches |-> 0]
    ELSE IF storageVersion # "V1021000"
    THEN [result |-> Err("Unknown DexStablePoolsStorage version"), cache |-> cache,
          fetches |-> 0]
    ELSE IF poolId \notin DOMAIN chain
    THEN [result |-> Err("Unable to find stable pool in storage for given poolId"),
          cache |-> setPoolCurrencies(cache, poolId, <<>>), fetches |-> 1]
    ELSE IF ~isBasePool(chain[poolId]) /\ ~isMetaPool(chain[poolId])
    THEN [result |-> Err("Found pool for given poolId, but it is an unexpected pool type"),
          cache |-> setPoolCurrencies(cache, poolId, <<>>), fetches |-> 1]
    ELSE LET currencyIds == chain[poolId].currencyIds
             currencies == [i \in 1..Len(currencyIds) |-> CurrencyPair(currencyIds[i])]
             cached == setPoolCurrencies(cache, poolId, currencies)
         IN  IF Len(currencies) > index
             THEN [result |-> Ok(currencies[index + 1]), cache |-> cached, fetches |-> 1]
             ELSE [result |-> Err("Unable to find currency in DexStablePoolsStorage"),
                   cache |-> cached, fetches |-> 1]

\* The path of getStablePoolCurrencyByIndex that reads the pool from storage
\* (taken when the cache cannot answer).  fetches counts the reads of the
\* pool from storage (getAsV1021000).
fetchStablePoolCurrency(cache, chain, storageVersion, poolId, index) ==
    IF storageVersion = "none"
    THEN [result |-> Err("DexStable.Pools storage is not defined for this spec version"),
          cache |-> cache, fetches |-> 0]
    ELSE IF storageVersion # "V1021000"
    THEN [result |-> Err("Unknown DexStablePoolsStorage version"), cache |-> cache,
          fetches |-> 0]
    ELSE IF poolId \notin DOMAIN chain
    THEN [result |-> Err("Unable to find stable pool in storage for given poolId"),
          cache |-> cache, fetches |-> 1]
    ELSE IF ~isBasePool(chain[poolId]) /\ ~isMetaPool(chain[poolId])
    THEN [result |-> Err("Found pool for given poolId, but it is an unexpected pool type"),
          cache |-> cache, fetches |-> 1]
    ELSE LET currencyIds == chain[poolId].currencyIds
             currencies == [i \in 1..Len(currencyIds) |-> CurrencyPair(currencyIds[i])]
             cached == setPoolCurrencies(cache, poolId, currencies)
         IN  IF Len(currencies) > index
             THEN [result |-> Ok(currencies[index + 1]), cache |-> cached, fetches |-> 1]
             ELSE [result |-> Err("Unable to find currency in DexStablePoolsStorage"),
                   cache |-> cached, fetches |-> 1]

\* A slip of the lookup: the cache is written but never read, every call
\* fetches.
getStablePoolCurrencyByIndexUncached(cache, chain, storageVersion, poolId, index) ==
    fetchStablePoolCurrency(cache, chain, storageVersion, poolId, index)

\* A slip of the lookup: an index outside the cached list fails at once.
getStablePoolCurrencyByIndexNoRefetch(cache, chain, storageVersion, poolId, index) ==
    IF poolId \in DOMAIN cache
    THEN IF Len(cache[poolId]) > index
         THEN [result |-> Ok(cache[poolId][index + 1]), cache |-> cache, fetches |-> 0]
         ELSE [result |-> Err("Unable to find currency in DexStablePoolsStorage"),
               cache |-> cache, fetches |-> 0]
    ELSE fetchStablePoolCurrency(cache, chain, storageVersion, poolId, index)

getStablePoolCurrencyByIndex(cache, chain, storageVersion, poolId, index) ==
    IF poolId \in DOMAIN cache /\ Len(cache[poolId]) > index
    THEN [result |-> Ok(cache[poolId][index + 1]), cache |-> cache, fetches |-> 0]
    ELSE fetchStablePoolCurrency(cache, chain, storageVersion, poolId, index)

(***************************************************************************)
(* The exchange-rate log (class BlockRates).                               *)
(***************************************************************************)
DefaultRate == 2

\* A slip of addRate: one sample per symbol, the older ones are dropped.
addRateLatestOnly(rs, block, symbol, rate) ==
    Append(SelectSeq(rs, LAMBDA r : r.symbol # symbol),
           [block |-> block, symbol |-> symbol, rate |-> rate])

addRate(rs, block, symbol, rate) ==
    Append(rs, [block |-> block, symbol |-> symbol, rate |-> rate])

\* A slip of the scan of getRate: from the oldest sample on.
RECURSIVE getRateScanForward(_, _, _, _)
getRateScanForward(rs, i, block, symbol) ==
    IF i > Len(rs) THEN [rate |-> [block |-> block, symbol |-> symbol, rate |-> DefaultRate],
                         note |-> TRUE]
    ELSE IF rs[i].symbol = symbol /\ rs[i].block <= block
        THEN [rate |-> rs[i], note |-> FALSE]
    ELSE getRateScanForward(rs, i + 1, block, symbol)

\* The loop of getRate from index i down; note: the default rate was logged.
RECURSIVE getRateScan(_, _, _, _)
getRateScan(rs, i, block, symbol) ==
    IF i < 1 THEN [rate |-> [block |-> block, symbol |-> symbol, rate |-> DefaultRate],
                   note |-> TRUE]
    ELSE IF rs[i].symbol = symbol /\ rs[i].block <= block
        THEN [rate |-> rs[i], note |-> FALSE]
    ELSE getRateScan(rs, i - 1, block, symbol)

\* A slip of getRate: the oldest matching sample instead of the latest.
getRateOldestFirst(rs, block, symbol) == getRateScanForward(rs, 1, block, symbol)

getRate(rs, block, symbol) == getRateScan(rs, Len(rs), block, symbol)

(***************************************************************************)
(* State.                                                                  *)
(*   op, arg0, arg1, res   the last call or handler run: its name, its     *)
(*                         arguments (a handler's raw event) and result    *)
(*   rates                 cachedRates.rates                               *)
(*   buffer                the entity buffer: (kind, id) -> pending entity *)
(*   pushed                the (kind, id) of the pushEntity calls of the   *)
(*                         last handler run, in order                      *)
(*   store                 the persisted entities: (kind, id) -> entity    *)
(*   stablePoolCurrenciesCache   pool id -> currencies                     *)
(*   pools                 the chain's DexStable.Pools storage             *)
(*   blockHeight           height of the block being processed             *)
(*   eventNo               number of events delivered                      *)
(*   inflight              the updates of the totals of a swap that were   *)
(*                         dispatched and not yet joined                   *)
(* and, for the comparison of two runs on the same events:                 *)
(*   log                   the inputs of the first run, in order           *)
(*   replay                what the first run left and how far the second  *)
(*                         run has come (NoArg during a first run)         *)
(***************************************************************************)
VARIABLES op, arg0, arg1, res, rates, buffer, pushed, store,
          stablePoolCurrenciesCache, pools, blockHeight, eventNo, log, replay,
          inflight

callVars == <<op, arg0, arg1, res>>
twinVars == <<log, replay, inflight>>
machineVars == <<rates, buffer, pushed, store, stablePoolCurrenciesCache, pools,
                 blockHeight, eventNo, log, replay, inflight>>
vars == <<op, arg0, arg1, res, rates, buffer, pushed, store,
          stablePoolCurrenciesCache, pools, blockHeight, eventNo, log, replay, inflight>>

\* Events delivered in one run of the model.
MaxEvents == 2
\* Events delivered in one run of the model of the exchange-rate log.
MaxRateEvents == 3
\* Highest block of the model.
MaxHeight == 3

NoArg == [isTypeOf |-> "none"]

InitMachine ==
    /\ rates = <<>>
    /\ buffer = <<>>
    /\ pushed = <<>>
    /\ store = <<>>
    /\ stablePoolCurrenciesCache = <<>>
    /\ pools = ChainPools
    /\ blockHeight = 1
    /\ eventNo = 0
    /\ log = <<>>
    /\ replay = NoArg
    /\ inflight = NoArg

Init ==
    /\ op = "none" /\ arg0 = NoArg /\ arg1 = NoArg /\ res = Ok(0)
    /\ InitMachine

(***************************************************************************)
(* Calls of the pure functions of the ordering and the encoding.           *)
(***************************************************************************)
\* The arguments of the next call: two currencies, or one raw asset.
InitOrder ==
    /\ op = "none"
    /\ res = Ok(0)
    /\ \/ arg0 \in Currencies /\ arg1 \in Currencies
       \/ arg0 \in RawAssets /\ arg1 = NoArg
    /\ InitMachine

IsCurrencyArgs == arg1 # NoArg

CallCompareCurrencies ==
    /\ op = "none" /\ IsCurrencyArgs
    /\ op' = "compareCurrencies"
    /\ res' = compareCurrencies(arg0, arg1)
    /\ UNCHANGED <<arg0, arg1>>
    /\ UNCHANGED machineVars

CallOrderCurrencies ==
    /\ op = "none" /\ IsCurrencyArgs
    /\ op' = "orderCurrencies"
    /\ res' = orderCurrencies(arg0, arg1)
    /\ UNCHANGED <<arg0, arg1>>
    /\ UNCHANGED machineVars

CallInferGeneralPoolId ==
    /\ op = "none" /\ IsCurrencyArgs
    /\ op' = "inferGeneralPoolId"
    /\ res' = inferGeneralPoolId(arg0, arg1)
    /\ UNCHANGED <<arg0, arg1>>
    /\ UNCHANGED machineVars

CallCurrencyToString ==
    /\ op = "none" /\ IsCurrencyArgs
    /\ op' = "currencyToString"
    /\ res' = currencyToString(arg0)
    /\ UNCHANGED <<arg0, arg1>>
    /\ UNCHANGED machineVars

CallCurrencyIdEncode ==
    /\ op = "none" /\ ~IsCurrencyArgs
    /\ op' = "currencyId.encode"
    /\ res' = currencyId_encode(arg0)
    /\ UNCHANGED <<arg0, arg1>>
    /\ UNCHANGED machineVars

NextOrder ==
    \/ CallCompareCurrencies
    \/ CallOrderCurrencies
    \/ CallInferGeneralPoolId
    \/ CallCurrencyToString
    \/ CallCurrencyIdEncode

SpecOrder == InitOrder /\ [][NextOrder]_vars

(***************************************************************************)
(* Event handlers.  A handler run delivers event number eventNo + 1, an    *)
(* event of the block at blockHeight.  Its result says whether it returned *)
(* (ok) or threw, and what it logged through ctx.log (warn or error).      *)
(***************************************************************************)
Returned == [ok |-> TRUE, log |-> "none", msg |-> ""]
Warned(msg) == [ok |-> TRUE, log |-> "warn", msg |-> msg]
LoggedError(msg) == [ok |-> TRUE, log |-> "error", msg |-> msg]
Threw(msg) == [ok |-> FALSE, log |-> "none", msg |-> msg]

\* The processor moves on to the next block.
NewBlock ==
    /\ blockHeight < MaxHeight
    /\ blockHeight' = blockHeight + 1
    /\ UNCHANGED <<op, arg0, arg1, res, rates, buffer, pushed, store,
                   stablePoolCurrenciesCache, pools, eventNo, log, replay, inflight>>

\* The buffer after a list of pushEntity(kind, entity) calls, in order.
RECURSIVE pushAll(_, _)
pushAll(buf, pushes) ==
    IF pushes = <<>> THEN buf
    ELSE pushAll(pushEntity(buf, Head(pushes)[1], Head(pushes)[2]), Tail(pushes))

\* The state after a handler run that made the given pushEntity calls.
Handled(name, rawEvent, result, pushes, rts, cache) ==
    /\ op' = name
    /\ arg0' = rawEvent
    /\ arg1' = NoArg
    /\ res' = result
    /\ buffer' = pushAll(buffer, pushes)
    /\ pushed' = [i \in 1..Len(pushes) |-> <<pushes[i][1], pushes[i][2].id>>]
    /\ rates' = rts
    /\ stablePoolCurrenciesCache' = cache
    /\ eventNo' = eventNo + 1
    /\ UNCHANGED <<store, pools, blockHeight>>

\* A handler run that pushed nothing and left the caches alone.
Skipped(name, rawEvent, result) ==
    Handled(name, rawEvent, result, <<>>, rates, stablePoolCurrenciesCache)

\* A slip of the decoding: the positional encoding read as (amount, currency,
\* account).
decodeAccountCurrencyAmountSwapped(rawEvent) ==
    IF isV1020000(rawEvent)
    THEN [decoded |-> TRUE, accountId |-> rawEvent.args[3],
          currencyId |-> rawEvent.args[2], amount |-> rawEvent.args[1]]
    ELSE IF isV1021000(rawEvent)
    THEN [decoded |-> TRUE, accountId |-> rawEvent.args.accountId,
          currencyId |-> rawEvent.args.currencyId, amount |-> rawEvent.args.amount]
    ELSE [decoded |-> FALSE]

\* The decoding of an (account, currency, amount) event, as each loan handler
\* spells it out; decoded is FALSE when no version matches.
decodeAccountCurrencyAmount(rawEvent) ==
    IF isV1020000(rawEvent)
    THEN [decoded |-> TRUE, accountId |-> rawEvent.args[1],
          currencyId |-> rawEvent.args[2], amount |-> rawEvent.args[3]]
    ELSE IF isV1021000(rawEvent)
    THEN [decoded |-> TRUE, accountId |-> rawEvent.args.accountId,
          currencyId |-> rawEvent.args.currencyId, amount |-> rawEvent.args.amount]
    ELSE [decoded |-> FALSE]

\* The entity of a Loan or Deposit: amountField names the amount it carries.
LoanOrDeposit(id, h, account, currency, amountField, amount) ==
    [id |-> id, height |-> h, userParachainAddress |-> account, token |-> currency,
     amountField |-> amountField, amount |-> amount]

\* The common course of borrow, depositForLending, repay and withdrawDeposit.
simpleLoanHandler(name, warning, kind, amountField, rawEvent) ==
    LET e == decodeAccountCurrencyAmount(rawEvent)
        currency == currencyId_encode(e.currencyId)
        account == address_interlay_encode(e.accountId)
    IN  IF ~e.decoded
        THEN Skipped(name, rawEvent, Warned(warning))
        ELSE IF ~currency.ok
        THEN Skipped(name, rawEvent, Threw(currency.err))
        ELSE Handled(name, rawEvent, Returned,
                     <<<<kind, LoanOrDeposit(EventId(eventNo + 1), blockHeight, account,
                                             currency.val, amountField, e.amount)>>>>,
                     rates, stablePoolCurrenciesCache)

borrow(rawEvent) ==
    simpleLoanHandler("borrow", "UNKOWN EVENT VERSION: LoansBorrowedEvent",
                      "Loan", "amountBorrowed", rawEvent)

depositForLending(rawEvent) ==
    simpleLoanHandler("depositForLending", "UNKOWN EVENT VERSION: LoansDepositedEvent",
                      "Deposit", "amountDeposited", rawEvent)

repay(rawEvent) ==
    simpleLoanHandler("repay", "UNKOWN EVENT VERSION: LoansRepaidBorrowEvent",
                      "Loan", "amountRepaid", rawEvent)

withdrawDeposit(rawEvent) ==
    simpleLoanHandler("withdrawDeposit", "UNKOWN EVENT VERSION: LoansRepaidBorrowEvent",
                      "Deposit", "amountWithdrawn", rawEvent)

\* The common course of depositCollateral and withdrawCollateral: for a lend
\* token the underlying's symbol is looked up and its rate read from the log.
collateralHandler(name, amountField, rawEvent, newToken) ==
    LET e == decodeAccountCurrencyAmount(rawEvent)
        currency == currencyId_encode(e.currencyId)
        account == address_interlay_encode(e.accountId)
        exRate == getRate(rates, blockHeight, symbolFromCurrency(newToken)).rate
        \* the comment names the amount in hundredths: of the underlying, at the
        \* rate read, for a lend token, and of the currency itself otherwise
        comment == IF currency.val.isTypeOf = "LendToken"
                   THEN [token |-> newToken, amount |-> e.amount * exRate.rate]
                   ELSE [token |-> currency.val, amount |-> e.amount * RateScale]
    IN  IF ~e.decoded
        THEN Skipped(name, rawEvent,
                     Warned("UNKOWN EVENT VERSION: LoansDepositCollateralEvent"))
        ELSE IF ~currency.ok
        THEN Skipped(name, rawEvent, Threw(currency.err))
        ELSE IF currency.val.isTypeOf = "LendToken" /\ newToken = Undefined
        THEN Skipped(name, rawEvent, Threw("TypeError: symbolFromCurrency(undefined)"))
        ELSE Handled(name, rawEvent, Returned,
                     <<<<"Deposit",
                         LoanOrDeposit(EventId(eventNo + 1), blockHeight, account,
                                       currency.val, amountField, e.amount)
                         @@ [comment |-> comment]>>>>,
                     rates, stablePoolCurrenciesCache)

depositCollateral(rawEvent, newToken) ==
    collateralHandler("depositCollateral", "amountDeposited", rawEvent, newToken)

withdrawCollateral(rawEvent, newToken) ==
    collateralHandler("withdrawCollateral", "amountWithdrawn", rawEvent, newToken)

\* accrueInterest decodes with asV1021000 and no version test: the generated
\* getter asserts the version, so an event of another version makes it throw.
accrueInterest(rawEvent) ==
    LET interestAccrued == rawEvent.args
        ex == (interestAccrued.exchangeRate * RateScale) \div FixedPointOne
        currency == currencyId_encode(interestAccrued.underlyingCurrencyId)
        symbol == symbolFromCurrency(currency.val)
    IN  IF ~isV1021000(rawEvent)
        THEN Skipped("accrueInterest", rawEvent, Threw("AssertionError: isV1021000"))
        ELSE IF ~currency.ok
        THEN Skipped("accrueInterest", rawEvent, Threw(currency.err))
        ELSE Handled("accrueInterest", rawEvent, Returned,
                     <<<<"InterestAccrual",
                         [id |-> EventId(eventNo + 1), height |-> blockHeight,
                          underlyingCurrency |-> currency.val,
                          currencySymbol |-> symbol,
                          totalBorrows |-> interestAccrued.totalBorrows,
                          totalReserves |-> interestAccrued.totalReserves,
                          borrowIndex |-> interestAccrued.borrowIndex,
                          utilizationRatio |-> interestAccrued.utilizationRatio,
                          borrowRate |-> interestAccrued.borrowRate,
                          supplyRate |-> interestAccrued.supplyRate,
                          exchangeRate |-> interestAccrued.exchangeRate,
                          exchangeRateFloat |-> ex]>>>>,
                     addRate(rates, blockHeight, symbol, ex), stablePoolCurrenciesCache)

\* The decoding of a NewMarket or UpdatedMarket event.
decodeMarket(rawEvent) ==
    IF isV1020000(rawEvent)
    THEN [decoded |-> TRUE, underlyingCurrencyId |-> rawEvent.args[1],
          market |-> rawEvent.args[2]]
    ELSE IF isV1021000(rawEvent)
    THEN [decoded |-> TRUE, underlyingCurrencyId |-> rawEvent.args.underlyingCurrencyId,
          market |-> rawEvent.args.market]
    ELSE [decoded |-> FALSE]

\* A slip of the market's identity: the id is made of the lend token id.
LoanMarketByLendToken(id, currency, h, market, state) ==
    [id |-> "loanMarket_" \o ToString(market.lendTokenId.value), token |-> currency,
     height |-> h, borrowCap |-> market.borrowCap, supplyCap |-> market.supplyCap,
     rateModel |-> rateModel_encode(market.rateModel),
     closeFactor |-> market.closeFactor, lendTokenId |-> market.lendTokenId.value,
     state |-> state, reserveFactor |-> market.reserveFactor,
     collateralFactor |-> market.collateralFactor,
     liquidateIncentive |-> market.liquidateIncentive,
     liquidationThreshold |-> market.liquidationThreshold,
     liquidateIncentiveReservedFactor |-> market.liquidateIncentiveReservedFactor,
     activation |-> Undefined]

\* The LoanMarket entity; a new or updated one carries no activation.
LoanMarket(id, currency, h, market, state) ==
    [id |-> "loanMarket_" \o id, token |-> currency, height |-> h,
     borrowCap |-> market.borrowCap, supplyCap |-> market.supplyCap,
     rateModel |-> rateModel_encode(market.rateModel),
     closeFactor |-> market.closeFactor, lendTokenId |-> market.lendTokenId.value,
     state |-> state, reserveFactor |-> market.reserveFactor,
     collateralFactor |-> market.collateralFactor,
     liquidateIncentive |-> market.liquidateIncentive,
     liquidationThreshold |-> market.liquidationThreshold,
     liquidateIncentiveReservedFactor |-> market.liquidateIncentiveReservedFactor,
     activation |-> Undefined]

newMarket(rawEvent) ==
    LET e == decodeMarket(rawEvent)
        currency == currencyId_encode(e.underlyingCurrencyId)
        id == currencyToString(currency.val)
    IN  IF ~e.decoded
        THEN Skipped("newMarket", rawEvent,
                     Warned("UNKOWN EVENT VERSION: LoansNewMarketEvent"))
        ELSE IF ~currency.ok
        THEN Skipped("newMarket", rawEvent, Threw(currency.err))
        ELSE IF ~id.ok
        THEN Skipped("newMarket", rawEvent, Threw(id.err))
        ELSE Handled("newMarket", rawEvent, Returned,
                     <<<<"LoanMarket",
                         LoanMarket(id.val, currency.val, blockHeight, e.market,
                                    "Pending")>>>>,
                     rates, stablePoolCurrenciesCache)

\* The updated market replaces the market of the same id; its state is
\* Supervision when the event says so and Pending otherwise.
updatedMarket(rawEvent) ==
    LET e == decodeMarket(rawEvent)
        currency == currencyId_encode(e.underlyingCurrencyId)
        id == currencyToString(currency.val)
    IN  IF ~e.decoded
        THEN Skipped("updatedMarket", rawEvent,
                     Warned("UNKOWN EVENT VERSION: LoansUpdatedMarketEvent"))
        ELSE IF ~currency.ok
        THEN Skipped("updatedMarket", rawEvent, Threw(currency.err))
        ELSE IF ~id.ok
        THEN Skipped("updatedMarket", rawEvent, Threw(id.err))
        ELSE Handled("updatedMarket", rawEvent, Returned,
                     <<<<"LoanMarket",
                         LoanMarket(id.val, currency.val, blockHeight, e.market,
                                    IF e.market.state.kind = "Supervision"
                                    THEN "Supervision" ELSE "Pending")>>>>,
                     rates, stablePoolCurrenciesCache)

\* A slip of activatedMarket: an activation is pushed also when no market was
\* found.
activatedMarketUnchecked(rawEvent) ==
    LET underlyingCurrencyId ==
            IF isV1020000(rawEvent) THEN rawEvent.args
            ELSE rawEvent.args.underlyingCurrencyId
        currency == currencyId_encode(underlyingCurrencyId)
        id == currencyToString(currency.val)
        activation == [id |-> "loanMarket_" \o id.val, market |-> "loanMarket_" \o id.val,
                       token |-> currency.val, height |-> blockHeight]
    IN  IF ~isV1020000(rawEvent) /\ ~isV1021000(rawEvent)
        THEN Skipped("activatedMarket", rawEvent,
                     Warned("UNKOWN EVENT VERSION: LoansActivatedMarketEvent"))
        ELSE IF ~currency.ok
        THEN Skipped("activatedMarket", rawEvent, Threw(currency.err))
        ELSE IF ~id.ok
        THEN Skipped("activatedMarket", rawEvent, Threw(id.err))
        ELSE Handled("activatedMarket", rawEvent, Returned,
                     <<<<"LoanMarketActivation", activation>>>>,
                     rates, stablePoolCurrenciesCache)

\* The market is looked up in the store (ctx.store.get), not in the buffer.
\* The activation and the market refer to each other; the model keeps the
\* activation's reference as the market's id.
activatedMarket(rawEvent) ==
    LET underlyingCurrencyId ==
            IF isV1020000(rawEvent) THEN rawEvent.args
            ELSE rawEvent.args.underlyingCurrencyId
        currency == currencyId_encode(underlyingCurrencyId)
        id == currencyToString(currency.val)
        marketDb == getEntity(store, "LoanMarket", "loanMarket_" \o id.val)
        activation == [id |-> marketDb.id, market |-> marketDb.id,
                       token |-> currency.val, height |-> blockHeight]
    IN  IF ~isV1020000(rawEvent) /\ ~isV1021000(rawEvent)
        THEN Skipped("activatedMarket", rawEvent,
                     Warned("UNKOWN EVENT VERSION: LoansActivatedMarketEvent"))
        ELSE IF ~currency.ok
        THEN Skipped("activatedMarket", rawEvent, Threw(currency.err))
        ELSE IF ~id.ok
        THEN Skipped("activatedMarket", rawEvent, Threw(id.err))
        ELSE IF marketDb = Undefined
        THEN Skipped("activatedMarket", rawEvent,
                     Warned("WARNING: ActivatedMarket event did not match any existing LoanMarkets! Skipping."))
        ELSE Handled("activatedMarket", rawEvent, Returned,
                     <<<<"LoanMarketActivation", activation>>,
                       <<"LoanMarket",
                         [marketDb EXCEPT !.state = "Active",
                                          !.activation = activation]>>>>,
                     rates, stablePoolCurrenciesCache)

\* A slip of createSwapDetailsAmounts: lists of different lengths are zipped
\* up to the shorter one.
createSwapDetailsAmountsTruncating(currencies, atomicBalances) ==
    IF \E i \in 1..Len(currencies) : ~isPooledToken(currencies[i])
    THEN Err("Cannot create SwapDetailsAmounts; unexpected currency type found")
    ELSE Ok([i \in 1..(IF Len(currencies) < Len(atomicBalances)
                       THEN Len(currencies) ELSE Len(atomicBalances)) |->
                [currency |-> currencies[i], atomicAmount |-> atomicBalances[i]]])

\* createSwapDetailsAmounts: the currencies and balances zipped, or the error.
createSwapDetailsAmounts(currencies, atomicBalances) ==
    IF Len(currencies) # Len(atomicBalances)
    THEN Err("Cannot create SwapDetailsAmounts; currency count ["
             \o ToString(Len(currencies)) \o "] does not match balance count ["
             \o ToString(Len(atomicBalances)) \o "]")
    ELSE IF \E i \in 1..Len(currencies) : ~isPooledToken(currencies[i])
    THEN Err("Cannot create SwapDetailsAmounts; unexpected currency type found")
    ELSE Ok([i \in 1..Len(currencies) |->
                [currency |-> currencies[i], atomicAmount |-> atomicBalances[i]]])

\* A slip of createPairWiseSwapDetails: the index advances by two, so the
\* pairs do not overlap.
createPairWiseSwapDetailsDisjoint(amounts) ==
    [i \in 1..(Len(amounts) \div 2) |->
        [from |-> amounts[2 * i - 1], to |-> amounts[2 * i]]]

\* createPairWiseSwapDetails: the consecutive legs of the path.
createPairWiseSwapDetails(amounts) ==
    [i \in 1..(IF Len(amounts) = 0 THEN 0 ELSE Len(amounts) - 1) |->
        [from |-> amounts[i], to |-> amounts[i + 1]]]

\* updateTotalAndPerAccountVolumesAndTradeCounts: the four entities are
\* computed from the buffer and the store, then pushed in this order.
updateTotalAndPerAccountVolumesAndTradeCounts(amounts, accountId, st, buf) ==
    LET volumePerAccountEntity ==
            updateCumulativeDexVolumesPerAccount(st, amounts, accountId, buf)
        totalVolumeEntity == updateCumulativeDexTotalVolumes(st, amounts, buf)
        tradeCountPerAccountEntity ==
            updateCumulativeDexTradeCountPerAccount(st, accountId, buf)
        totalCountEntity == updateCumulativeDexTotalTradeCount(st, buf)
    IN  <<<<"CumulativeDexTradingVolume", totalVolumeEntity>>,
          <<"CumulativeDexTradingVolumePerAccount", volumePerAccountEntity>>,
          <<"CumulativeDexTradeCount", totalCountEntity>>,
          <<"CumulativeDexTradeCountPerAccount", tradeCountPerAccountEntity>>>>

\* The loop of dexGeneralAssetSwap over the legs, one after the other: each
\* leg's pool entity is computed from the buffer as the legs before left it.
\* after[i] are the pushes made by the first i legs; the loop ends at the first
\* error.
standardPoolEntityNotAwaited(st, done, swapDetails) ==
    updateCumulativeDexVolumesForStandardPool(st, swapDetails, buffer)

\* A slip of the loop: totals that an earlier run left behind are read in
\* place of the store.
standardPoolEntityLeftOver(st, done, swapDetails) ==
    updateCumulativeDexVolumesForStandardPool(
        IF replay = NoArg THEN st ELSE replay.store, swapDetails, pushAll(buffer, done))

standardPoolEntity(st, done, swapDetails) ==
    updateCumulativeDexVolumesForStandardPool(st, swapDetails, pushAll(buffer, done))

\* One turn of the loop: the leg's entity is pushed, or its error ends the loop.
standardPoolPush(before, entity) ==
    IF ~entity.ok
    THEN [ok |-> FALSE, pushes |-> before.pushes, err |-> entity.err]
    ELSE [ok |-> TRUE,
          pushes |-> Append(before.pushes,
                            <<"CumulativeDexTradingVolumePerPool", entity.val>>)]

\* A slip of the loop: the updates of all the legs are started together, each
\* reads the buffer as it was before the loop, and their entities are pushed
\* afterwards.
standardPoolPushesAllAtOnce(st, swapDetailsList) ==
    LET entities == [i \in 1..Len(swapDetailsList) |->
                        updateCumulativeDexVolumesForStandardPool(st, swapDetailsList[i],
                                                                  buffer)]
        failed == {i \in 1..Len(swapDetailsList) : ~entities[i].ok}
    IN  IF failed # {}
        THEN [ok |-> FALSE, pushes |-> <<>>, err |-> entities[CHOOSE i \in failed : TRUE].err]
        ELSE [ok |-> TRUE,
              pushes |-> [i \in 1..Len(swapDetailsList) |->
                            <<"CumulativeDexTradingVolumePerPool", entities[i].val>>]]

standardPoolPushes(st, swapDetailsList) ==
    LET after[i \in 0..Len(swapDetailsList)] ==
            IF i = 0 THEN [ok |-> TRUE, pushes |-> <<>>]
            ELSE IF ~after[i - 1].ok THEN after[i - 1]
            ELSE standardPoolPush(after[i - 1],
                                  standardPoolEntity(st, after[i - 1].pushes,
                                                     swapDetailsList[i]))
    IN  after[Len(swapDetailsList)]

\* A slip of dexGeneralAssetSwap: the totals and the trade counts are updated
\* in the loop, once for every leg.
RECURSIVE totalsPerLeg(_, _, _, _, _)
totalsPerLeg(amounts, accountId, st, buf, n) ==
    IF n = 0 THEN <<>>
    ELSE LET first == updateTotalAndPerAccountVolumesAndTradeCounts(amounts, accountId,
                                                                    st, buf)
         IN  first \o totalsPerLeg(amounts, accountId, st, pushAll(buf, first), n - 1)

assetSwapAggregatesPerLeg(rawEvent, accountId, amounts, perPool) ==
    IF ~perPool.ok
    THEN Handled("dexGeneralAssetSwap", rawEvent, Threw(perPool.err), perPool.pushes,
                 rates, stablePoolCurrenciesCache)
    ELSE Handled("dexGeneralAssetSwap", rawEvent, Returned,
                 perPool.pushes
                 \o totalsPerLeg(amounts, accountId, store,
                                 pushAll(buffer, perPool.pushes), Len(perPool.pushes)),
                 rates, stablePoolCurrenciesCache)

\* dexGeneralAssetSwap from the loop over the legs on (lines 886-902).
assetSwapAggregates(rawEvent, accountId, amounts, perPool) ==
    IF ~perPool.ok
    THEN Handled("dexGeneralAssetSwap", rawEvent, Threw(perPool.err), perPool.pushes,
                 rates, stablePoolCurrenciesCache)
    ELSE Handled("dexGeneralAssetSwap", rawEvent, Returned,
                 perPool.pushes
                 \o updateTotalAndPerAccountVolumesAndTradeCounts(
                        amounts, accountId, store, pushAll(buffer, perPool.pushes)),
                 rates, stablePoolCurrenciesCache)

\* dexGeneralAssetSwap from the creation of the swap details on (lines 872-880).
assetSwapDetails(rawEvent, accountId, amounts) ==
    IF ~amounts.ok
    THEN Skipped("dexGeneralAssetSwap", rawEvent, LoggedError(amounts.err))
    ELSE assetSwapAggregates(rawEvent, accountId, amounts.val,
                             standardPoolPushes(store,
                                                createPairWiseSwapDetails(amounts.val)))

\* dexGeneralAssetSwap from the test of the currencies on (lines 864-870).
assetSwapCurrencies(rawEvent, accountId, currencies, atomicBalances) ==
    LET notPooled == {i \in 1..Len(currencies) : ~isPooledToken(currencies[i])}
        firstNotPooled == CHOOSE i \in notPooled : \A j \in notPooled : i <= j
    IN  IF notPooled # {}
        THEN Skipped("dexGeneralAssetSwap", rawEvent,
                     LoggedError("Unexpected currency type "
                                 \o currencies[firstNotPooled].isTypeOf
                                 \o " in pool, skip processing of DexGeneralAssetSwapEvent"))
        ELSE assetSwapDetails(rawEvent, accountId,
                              createSwapDetailsAmounts(currencies, atomicBalances))

dexGeneralAssetSwap(rawEvent) ==
    LET swapPath == rawEvent.args[3]
        encoded == [i \in 1..Len(swapPath) |-> currencyId_encode(swapPath[i])]
        failed == {i \in 1..Len(swapPath) : ~encoded[i].ok}
        firstFailed == CHOOSE i \in failed : \A j \in failed : i <= j
    IN  IF ~isV1021000(rawEvent)
        THEN Skipped("dexGeneralAssetSwap", rawEvent,
                     Warned("UNKOWN EVENT VERSION: DexGeneral.AssetSwap"))
        ELSE IF failed # {}
        THEN Skipped("dexGeneralAssetSwap", rawEvent, Threw(encoded[firstFailed].err))
        ELSE assetSwapCurrencies(rawEvent, address_interlay_encode(rawEvent.args[1]),
                                 [i \in 1..Len(swapPath) |-> encoded[i].val],
                                 rawEvent.args[4])

\* The two currencies are looked up by index, the outgoing one first; what the
\* lookup returns (the pair of the currency and its raw id) is what the handler
\* tests with isPooledToken and puts into the swap details.
dexStableCurrencyExchange(rawEvent, storageVersion) ==
    LET event == rawEvent.args
        poolId == event.poolId
        accountId == address_interlay_encode(event.who)
        out == getStablePoolCurrencyByIndex(stablePoolCurrenciesCache, pools,
                                            storageVersion, poolId, event.outIndex)
        in == getStablePoolCurrencyByIndex(out.cache, pools, storageVersion, poolId,
                                           event.inIndex)
        outCurrency == out.result.val
        inCurrency == in.result.val
        swapDetails == [from |-> [currency |-> inCurrency, atomicAmount |-> event.inAmount],
                        to |-> [currency |-> outCurrency, atomicAmount |-> event.outAmount]]
        amounts == <<swapDetails.from, swapDetails.to>>
        entity == updateCumulativeDexVolumesForStablePool(store, poolId, swapDetails, buffer)
        poolPush == <<<<"CumulativeDexTradingVolumePerPool", entity.val>>>>
        totals == updateTotalAndPerAccountVolumesAndTradeCounts(
                      amounts, accountId, store, pushAll(buffer, poolPush))
    IN  IF ~isV1021000(rawEvent)
        THEN Skipped("dexStableCurrencyExchange", rawEvent,
                     Warned("UNKOWN EVENT VERSION: DexStable.CurrencyExchange"))
        ELSE IF ~out.result.ok
        THEN Handled("dexStableCurrencyExchange", rawEvent, Threw(out.result.err), <<>>,
                     rates, out.cache)
        ELSE IF ~in.result.ok
        THEN Handled("dexStableCurrencyExchange", rawEvent, Threw(in.result.err), <<>>,
                     rates, in.cache)
        ELSE IF ~isPooledToken(inCurrency)
        THEN Handled("dexStableCurrencyExchange", rawEvent,
                     LoggedError("Unexpected currencyIn type undefined, skip processing of DexGeneralAssetSwapEvent"),
                     <<>>, rates, in.cache)
        ELSE IF ~isPooledToken(outCurrency)
        THEN Handled("dexStableCurrencyExchange", rawEvent,
                     LoggedError("Unexpected currencyOut type undefined, skip processing of DexGeneralAssetSwapEvent"),
                     <<>>, rates, in.cache)
        ELSE Handled("dexStableCurrencyExchange", rawEvent, Returned, poolPush \o totals,
                     rates, in.cache)

\* A query of the exchange-rate log.
CallGetRate(h, symbol) ==
    /\ op' = "getRate"
    /\ arg0' = h
    /\ arg1' = symbol
    /\ res' = Ok(getRate(rates, h, symbol))
    /\ UNCHANGED machineVars

\* The batch ends: the buffered entities are persisted and the buffer cleared.
flush ==
    /\ buffer # <<>>
    /\ store' = [k \in DOMAIN store \cup DOMAIN buffer |->
                    IF k \in DOMAIN buffer THEN buffer[k] ELSE store[k]]
    /\ buffer' = <<>>
    /\ op' = "flush"
    /\ arg0' = NoArg
    /\ arg1' = NoArg
    /\ res' = Returned
    /\ UNCHANGED <<rates, pushed, stablePoolCurrenciesCache, pools, blockHeight, eventNo>>

Flush == flush /\ UNCHANGED twinVars

Borrow ==
    /\ eventNo < MaxEvents
    /\ UNCHANGED twinVars
    /\ \E e \in AccountCurrencyAmountEvents("Loans.Borrowed") : borrow(e)

DepositForLending ==
    /\ eventNo < MaxEvents
    /\ UNCHANGED twinVars
    /\ \E e \in AccountCurrencyAmountEvents("Loans.Deposited") : depositForLending(e)

Repay ==
    /\ eventNo < MaxEvents
    /\ UNCHANGED twinVars
    /\ \E e \in AccountCurrencyAmountEvents("Loans.RepaidBorrow") : repay(e)

WithdrawDeposit ==
    /\ eventNo < MaxEvents
    /\ UNCHANGED twinVars
    /\ \E e \in AccountCurrencyAmountEvents("Loans.Redeemed") : withdrawDeposit(e)

DepositCollateral ==
    /\ eventNo < MaxEvents
    /\ UNCHANGED twinVars
    /\ \E e \in AccountCurrencyAmountEvents("Loans.DepositCollateral"),
          newToken \in LendTokenDetails : depositCollateral(e, newToken)

WithdrawCollateral ==
    /\ eventNo < MaxEvents
    /\ UNCHANGED twinVars
    /\ \E e \in AccountCurrencyAmountEvents("Loans.WithdrawCollateral"),
          newToken \in LendTokenDetails : withdrawCollateral(e, newToken)

AccrueInterest ==
    /\ eventNo < MaxEvents
    /\ UNCHANGED twinVars
    /\ \E e \in InterestAccruedEvents : accrueInterest(e)

NewMarket ==
    /\ eventNo < MaxEvents
    /\ UNCHANGED twinVars
    /\ \E e \in MarketEvents("Loans.NewMarket", {"Pending"}, 1) : newMarket(e)

UpdatedMarket ==
    /\ eventNo < MaxEvents
    /\ UNCHANGED twinVars
    /\ \E e \in MarketEvents("Loans.UpdatedMarket", {"Active", "Supervision"}, 2) :
          updatedMarket(e)

ActivatedMarket ==
    /\ eventNo < MaxEvents
    /\ UNCHANGED twinVars
    /\ \E e \in ActivatedMarketEvents : activatedMarket(e)

DexGeneralAssetSwap ==
    /\ eventNo < MaxEvents
    /\ UNCHANGED twinVars
    /\ \E e \in AssetSwapEvents : dexGeneralAssetSwap(e)

DexStableCurrencyExchange ==
    /\ eventNo < MaxEvents
    /\ UNCHANGED twinVars
    /\ \E e \in CurrencyExchangeEvents, storageVersion \in StorageVersions :
          dexStableCurrencyExchange(e, storageVersion)

\* A query of the exchange-rate log between two events, for the current block.
QueryRate ==
    /\ eventNo < MaxEvents
    /\ \E symbol \in {"DOT", "IBTC"} : CallGetRate(blockHeight, symbol)

\* An interest-accrual event of the run of the exchange-rate log.
AccrueInterestOnly ==
    /\ eventNo < MaxRateEvents
    /\ UNCHANGED twinVars
    /\ \E e \in InterestAccruedEvents : accrueInterest(e)

\* A query of the exchange-rate log for any block.
QueryRateAt ==
    \E h \in 0..(MaxHeight + 1), symbol \in {"DOT", "IBTC"} : CallGetRate(h, symbol)

\* The exchange-rate log, its writer and its queries.
NextRates ==
    \/ AccrueInterestOnly
    \/ QueryRateAt
    \/ NewBlock

SpecRates == Init /\ [][NextRates]_vars

\* The handlers on the events of one block, the rate query and the flush.  The
\* blocks advance in SpecRates, where the heights matter.
Next ==
    \/ Borrow
    \/ DepositForLending
    \/ Repay
    \/ WithdrawDeposit
    \/ DepositCollateral
    \/ WithdrawCollateral
    \/ AccrueInterest
    \/ NewMarket
    \/ UpdatedMarket
    \/ ActivatedMarket
    \/ DexGeneralAssetSwap
    \/ DexStableCurrencyExchange
    \/ QueryRate
    \/ Flush

Spec == Init /\ [][Next]_vars

(***************************************************************************)
(* The stable pool currencies cache: lookups, the explicit clear, the      *)
(* handler that looks currencies up, and the chain's pools changing        *)
(* between blocks.                                                         *)
(***************************************************************************)
\* Most currencies of a stable pool of the model.
MaxPoolLen == 3

\* A call of getStablePoolCurrencyByIndex; res is its result (or the error
\* thrown) and the number of reads of the pool from storage.
CallGetStablePoolCurrencyByIndex ==
    \E poolId \in 0..3, index \in 0..MaxPoolLen, storageVersion \in StorageVersions :
        LET r == getStablePoolCurrencyByIndex(stablePoolCurrenciesCache, pools,
                                              storageVersion, poolId, index)
        IN  /\ op' = "getStablePoolCurrencyByIndex"
            /\ arg0' = [poolId |-> poolId, index |-> index,
                        storageVersion |-> storageVersion]
            /\ arg1' = NoArg
            /\ res' = [result |-> r.result, fetches |-> r.fetches]
            /\ stablePoolCurrenciesCache' = r.cache
            /\ UNCHANGED <<rates, buffer, pushed, store, pools, blockHeight, eventNo, log, replay, inflight>>

\* clearPoolCurrencies().
CallClearPoolCurrencies ==
    /\ op' = "clearPoolCurrencies"
    /\ arg0' = NoArg
    /\ arg1' = NoArg
    /\ res' = Returned
    /\ stablePoolCurrenciesCache' = <<>>
    /\ UNCHANGED <<rates, buffer, pushed, store, pools, blockHeight, eventNo, log, replay, inflight>>

\* On the chain a currency is added to a base pool.
PoolGrows ==
    \E poolId \in DOMAIN pools :
        /\ isBasePool(pools[poolId])
        /\ Len(pools[poolId].currencyIds) < MaxPoolLen
        /\ pools' = [pools EXCEPT ![poolId].currencyIds = Append(@, RawForeignAsset(2))]
        /\ UNCHANGED <<op, arg0, arg1, res, rates, buffer, pushed, store,
                       stablePoolCurrenciesCache, blockHeight, eventNo, log, replay, inflight>>

\* A stable exchange event of the run of the cache.
DexStableCurrencyExchangeOnly ==
    /\ eventNo < MaxEvents
    /\ UNCHANGED twinVars
    /\ \E e \in CurrencyExchangeEvents, storageVersion \in StorageVersions :
          dexStableCurrencyExchange(e, storageVersion)

NextPools ==
    \/ CallGetStablePoolCurrencyByIndex
    \/ CallClearPoolCurrencies
    \/ PoolGrows
    \/ DexStableCurrencyExchangeOnly

SpecPools == Init /\ [][NextPools]_vars

\* The two caches of the process: the writer and the queries of the
\* exchange-rate log, the lookups of the pool currencies, and
\* clearPoolCurrencies, the one clearing operation the mappings have (the
\* class CachedRates has a clear(), but cachedRates is a BlockRates, which
\* has none).
NextCaches ==
    \/ AccrueInterestOnly
    \/ QueryRateAt
    \/ CallGetStablePoolCurrencyByIndex
    \/ CallClearPoolCurrencies

SpecCaches == Init /\ [][NextCaches]_vars

(***************************************************************************)
(* The Promise.all of updateTotalAndPerAccountVolumesAndTradeCounts, step   *)
(* by step: the four updates of a swap are dispatched, complete one by one  *)
(* in any order, and are joined.  (An update is an async function that      *)
(* reads the buffer and the store and returns an entity; its completion is  *)
(* one step.)                                                              *)
(***************************************************************************)
UpdateNames == {"volumePerAccount", "totalVolume", "tradeCountPerAccount", "totalCount"}

\* The update of the given name on the swap in flight.
runUpdate(u, fl, st, buf) ==
    CASE u = "volumePerAccount" ->
            updateCumulativeDexVolumesPerAccount(st, fl.amounts, fl.accountId, buf)
      [] u = "totalVolume" -> updateCumulativeDexTotalVolumes(st, fl.amounts, buf)
      [] u = "tradeCountPerAccount" ->
            updateCumulativeDexTradeCountPerAccount(st, fl.accountId, buf)
      [] u = "totalCount" -> updateCumulativeDexTotalTradeCount(st, buf)

\* A slip of the join: an update pushes its entity when it completes.
completeUpdateWriting(u, fl, st, buf) ==
    LET entity == runUpdate(u, fl, st, buf)
        kind == CASE u = "volumePerAccount" -> "CumulativeDexTradingVolumePerAccount"
                  [] u = "totalVolume" -> "CumulativeDexTradingVolume"
                  [] u = "tradeCountPerAccount" -> "CumulativeDexTradeCountPerAccount"
                  [] u = "totalCount" -> "CumulativeDexTradeCount"
    IN  [inflight |-> [fl EXCEPT !.pending = @ \ {u},
                                 !.results = (u :> entity) @@ @,
                                 !.order = Append(@, u)],
         buffer |-> pushEntity(buf, kind, entity)]

\* An update completes: its promise resolves to the entity; nothing is pushed.
completeUpdate(u, fl, st, buf) ==
    [inflight |-> [fl EXCEPT !.pending = @ \ {u},
                             !.results = (u :> runUpdate(u, fl, st, buf)) @@ @,
                             !.order = Append(@, u)],
     buffer |-> buf]

\* The pushes after the Promise.all (lines 837-840).
joinPushes(results) ==
    <<<<"CumulativeDexTradingVolume", results["totalVolume"]>>,
      <<"CumulativeDexTradingVolumePerAccount", results["volumePerAccount"]>>,
      <<"CumulativeDexTradeCount", results["totalCount"]>>,
      <<"CumulativeDexTradeCountPerAccount", results["tradeCountPerAccount"]>>>>

\* The dispatch (lines 896-902, 806-836) after the loop over the legs made
\* the given pushes.
dispatchUpdates(rawEvent, accountId, amounts, poolPushes) ==
    /\ buffer' = pushAll(buffer, poolPushes)
    /\ inflight' = [rawEvent |-> rawEvent,
                    amounts |-> amounts,
                    accountId |-> accountId,
                    poolPushes |-> poolPushes,
                    buffer |-> buffer',
                    pending |-> UpdateNames,
                    results |-> <<>>,
                    order |-> <<>>]
    /\ op' = "Promise.all"
    /\ arg0' = rawEvent
    /\ arg1' = NoArg
    /\ res' = Returned
    /\ pushed' = [i \in 1..Len(poolPushes) |-> <<poolPushes[i][1], poolPushes[i][2].id>>]

\* The loop over the legs (lines 883-894), then the dispatch.
dispatchAfterLoop(rawEvent, accountId, amounts, perPool) ==
    /\ perPool.ok
    /\ dispatchUpdates(rawEvent, accountId, amounts, perPool.pushes)

\* The swap details (lines 872-880), then the loop.
dispatchAfterDetails(rawEvent, accountId, amounts) ==
    /\ amounts.ok
    /\ dispatchAfterLoop(rawEvent, accountId, amounts.val,
                         standardPoolPushes(store, createPairWiseSwapDetails(amounts.val)))

\* dexGeneralAssetSwap up to the Promise.all, on an event that gets there: the
\* per-pool entities are pushed and the four updates are dispatched.
DispatchUpdates ==
    /\ inflight = NoArg
    /\ eventNo < MaxEvents
    /\ \E rawEvent \in AssetSwapEvents :
          LET swapPath == rawEvent.args[3]
              currencies == [i \in 1..Len(swapPath) |-> currencyId_encode(swapPath[i]).val]
          IN  /\ isV1021000(rawEvent)
              /\ \A i \in 1..Len(swapPath) :
                    currencyId_encode(swapPath[i]).ok /\ isPooledToken(currencies[i])
              /\ dispatchAfterDetails(rawEvent, address_interlay_encode(rawEvent.args[1]),
                                      createSwapDetailsAmounts(currencies, rawEvent.args[4]))
    /\ UNCHANGED <<rates, store, stablePoolCurrenciesCache, pools, blockHeight, eventNo,
                   log, replay>>

\* One of the pending updates completes.
CompleteUpdate ==
    /\ inflight # NoArg
    /\ \E u \in inflight.pending :
          LET after == completeUpdate(u, inflight, store, buffer)
          IN  /\ inflight' = after.inflight
              /\ buffer' = after.buffer
    /\ UNCHANGED <<op, arg0, arg1, res, rates, pushed, store, stablePoolCurrenciesCache,
                   pools, blockHeight, eventNo, log, replay>>

\* The Promise.all resolves: the four entities are pushed and the handler
\* returns.  arg1 keeps the order in which the updates completed.
JoinUpdates ==
    /\ inflight # NoArg
    /\ inflight.pending = {}
    /\ LET pushes == inflight.poolPushes \o joinPushes(inflight.results)
       IN  /\ buffer' = pushAll(buffer, joinPushes(inflight.results))
           /\ pushed' = [i \in 1..Len(pushes) |-> <<pushes[i][1], pushes[i][2].id>>]
    /\ op' = "dexGeneralAssetSwap"
    /\ arg0' = inflight.rawEvent
    /\ arg1' = inflight.order
    /\ res' = Returned
    /\ eventNo' = eventNo + 1
    /\ inflight' = NoArg
    /\ UNCHANGED <<rates, store, stablePoolCurrenciesCache, pools, blockHeight, log, replay>>

\* The batch ends between two events.
FlushJoined ==
    /\ inflight = NoArg
    /\ Flush

NextJoin ==
    \/ DispatchUpdates
    \/ CompleteUpdate
    \/ JoinUpdates
    \/ FlushJoined

SpecJoin == Init /\ [][NextJoin]_vars

\* A slip of the join: when an update rejects, the entities of the updates
\* that had completed are pushed all the same (as after Promise.allSettled).
failUpdateKeepingSettled(u, fl) ==
    [result |-> Threw("rejected: " \o u),
     pushes |-> SelectSeq(joinPushes([n \in UpdateNames |->
                                         IF n \in DOMAIN fl.results THEN fl.results[n]
                                         ELSE Undefined]),
                          LAMBDA push : push[2] # Undefined)]

\* An update rejects (its read of the store fails, say): the Promise.all
\* rejects, the await at line 806 throws before the pushes of lines 837-840,
\* and dexGeneralAssetSwap, which has no try around the call (lines 896-902),
\* throws in turn.
failUpdate(u, fl) ==
    [result |-> Threw("rejected: " \o u), pushes |-> <<>>]

\* One of the pending updates rejects and the handler run ends.
FailUpdate ==
    /\ inflight # NoArg
    /\ \E u \in inflight.pending :
          LET failed == failUpdate(u, inflight)
              pushes == inflight.poolPushes \o failed.pushes
          IN  /\ buffer' = pushAll(buffer, failed.pushes)
              /\ pushed' = [i \in 1..Len(pushes) |-> <<pushes[i][1], pushes[i][2].id>>]
              /\ res' = failed.result
    /\ op' = "dexGeneralAssetSwap"
    /\ arg0' = inflight.rawEvent
    /\ arg1' = inflight.order
    /\ eventNo' = eventNo + 1
    /\ inflight' = NoArg
    /\ UNCHANGED <<rates, store, stablePoolCurrenciesCache, pools, blockHeight, log, replay>>

\* The join with updates that may reject.
NextJoinFailing ==
    \/ DispatchUpdates
    \/ CompleteUpdate
    \/ JoinUpdates
    \/ FailUpdate
    \/ FlushJoined

SpecJoinFailing == Init /\ [][NextJoinFailing]_vars

(***************************************************************************)
(* Two runs on the same inputs: a first run of swap events and flushes is  *)
(* logged; the process then starts again from the empty store, buffer and  *)
(* caches and is given the logged inputs in the same order.                *)
(***************************************************************************)
SwapInputs ==
    {[kind |-> "swap", event |-> e] : e \in AssetSwapEvents}
    \cup {[kind |-> "exchange", event |-> e, storageVersion |-> v] :
             e \in CurrencyExchangeEvents, v \in StorageVersions}
    \cup {[kind |-> "flush"]}

\* The handler (or the flush) on one input.
Process(input) ==
    IF input.kind = "swap" THEN dexGeneralAssetSwap(input.event)
    ELSE IF input.kind = "exchange"
    THEN dexStableCurrencyExchange(input.event, input.storageVersion)
    ELSE flush

FirstRun ==
    /\ replay = NoArg
    /\ \E input \in SwapInputs :
          /\ input.kind = "flush" \/ eventNo < MaxEvents
          /\ Process(input)
          /\ log' = Append(log, input)
    /\ replay' = replay
    /\ inflight' = inflight

\* The first run ends; what it left is kept aside and the process starts again.
Restart ==
    /\ replay = NoArg
    /\ log # <<>>
    /\ replay' = [buffer |-> buffer, store |-> store,
                  cache |-> stablePoolCurrenciesCache, done |-> 0]
    /\ op' = "restart" /\ arg0' = NoArg /\ arg1' = NoArg /\ res' = Returned
    /\ rates' = <<>>
    /\ buffer' = <<>>
    /\ pushed' = <<>>
    /\ store' = <<>>
    /\ stablePoolCurrenciesCache' = <<>>
    /\ eventNo' = 0
    /\ UNCHANGED <<pools, blockHeight, log, inflight>>

SecondRun ==
    /\ replay # NoArg
    /\ replay.done < Len(log)
    /\ Process(log[replay.done + 1])
    /\ replay' = [replay EXCEPT !.done = @ + 1]
    /\ log' = log
    /\ inflight' = inflight

NextTwin ==
    \/ FirstRun
    \/ Restart
    \/ SecondRun

SpecTwin == Init /\ [][NextTwin]_vars

(***************************************************************************)
(* buildNewSwapEntity: the swap entity with its fee leg.                   *)
(***************************************************************************)
\* Raw fee rates are in basis points: the code multiplies them by 0.0001.
BasisPoint == 10000
\* RoundingMode.RoundDown of big.js.
RoundDown == 0

\* Big numbers of the model: num / den, with den a power of ten.
Big(n) == [num |-> n, den |-> 1]
Big_mul_0_0001(x) == [num |-> x.num, den |-> x.den * BasisPoint]
Big_mul(x, n) == [num |-> x.num * n, den |-> x.den]

RECURSIVE IntDigits(_)
IntDigits(n) == IF n < 10 THEN 1 ELSE 1 + IntDigits(n \div 10)

RECURSIVE Pow10(_)
Pow10(n) == IF n = 0 THEN 1 ELSE 10 * Pow10(n - 1)

\* Big.toPrecision(sd, rm) for rm = RoundDown: sd must be an integer from 1
\* up, else big.js throws; the value is cut to sd significant digits and
\* written in exponential notation when sd is less than the number of digits
\* of the integer part, with decimals when it is more.
Big_toPrecision(x, sd, rm) ==
    LET whole == x.num \div x.den
        d == IntDigits(whole)
    IN  IF sd < 1 THEN Err("[big.js] Invalid precision")
        ELSE IF whole >= 1 /\ sd < d
        THEN Ok([notation |-> "exponential",
                 value |-> (whole \div Pow10(d - sd)) * Pow10(d - sd)])
        ELSE IF (whole >= 1 /\ sd = d) \/ (x.num = 0 /\ sd = 1)
        THEN Ok([notation |-> "integer", value |-> whole])
        ELSE Ok([notation |-> "decimal", value |-> whole])

\* BigInt(string): only the notation of an integer converts.
BigInt(text) ==
    IF text.notation = "integer" THEN Ok(text.value)
    ELSE Err("SyntaxError: Cannot convert to a BigInt")

\* createPooledAmount of a swap leg.
createPooledAmount(details) ==
    [token |-> details.currency, atomicAmount |-> details.atomicAmount]

PoolTypes == {"Standard", "Stable"}

\* DexGeneral.PairStatuses: a value query, Disable where nothing is recorded.
getPairStatus(pairStatuses, key) ==
    IF key \in DOMAIN pairStatuses THEN pairStatuses[key] ELSE [kind |-> "Disable"]

\* The fee rate that buildNewSwapEntity reads for the legs.
swapFeeRate(poolType, swapDetails, storageVersion, pairStatuses) ==
    LET currencyCompareValue ==
            compareCurrencies(swapDetails.from.currency, swapDetails.to.currency).val
        currencyPairKey ==
            IF currencyCompareValue < 0
            THEN <<swapDetails.from.currencyId, swapDetails.to.currencyId>>
            ELSE <<swapDetails.to.currencyId, swapDetails.from.currencyId>>
        rawStorage == getPairStatus(pairStatuses, currencyPairKey)
    IN  IF poolType = "Standard" /\ storageVersion = "V1021000"
           /\ rawStorage.kind = "Trading"
        THEN Big_mul_0_0001(Big(rawStorage.value.feeRate))
        ELSE Big(0)

\* The Swap record buildNewSwapEntity constructs: its id is a literal, the
\* function receives no event.
newSwap(swapDetails, feeDetails, feeRate, height) ==
    [id |-> "abc",
     height |-> height,
     fromAccount |-> swapDetails.from.accountId,
     toAccount |-> swapDetails.to.accountId,
     from |-> createPooledAmount(swapDetails.from),
     to |-> createPooledAmount(swapDetails.to),
     fees |-> createPooledAmount(feeDetails),
     feeRate |-> feeRate]

buildNewSwapEntity(poolType, swapDetails, storageVersion, pairStatuses, height) ==
    LET feeRate == swapFeeRate(poolType, swapDetails, storageVersion, pairStatuses)
        adjustedAmount ==
            Big_toPrecision(Big_mul(feeRate, swapDetails.from.atomicAmount), 0, RoundDown)
        feeAmount == BigInt(adjustedAmount.val)
        feeDetails == [swapDetails.from EXCEPT !.atomicAmount = feeAmount.val]
    IN  IF poolType = "Standard"
           /\ ~compareCurrencies(swapDetails.from.currency, swapDetails.to.currency).ok
        THEN compareCurrencies(swapDetails.from.currency, swapDetails.to.currency)
        ELSE IF poolType = "Standard" /\ storageVersion = "none"
        THEN Err("buildNewSwapEntity: DexGeneral.PairStatuses storage is not defined for this spec version")
        ELSE IF ~adjustedAmount.ok THEN adjustedAmount
        ELSE IF ~feeAmount.ok THEN feeAmount
        ELSE Ok(newSwap(swapDetails, feeDetails, feeRate, height))

\* The inputs of the calls of the model.
SwapLeg(raw, amount) ==
    [currency |-> currencyId_encode(raw).val, currencyId |-> raw,
     atomicAmount |-> amount, accountId |-> address_interlay_encode(1)]

SwapEntityDetails ==
    {[from |-> SwapLeg(pair[1], amount), to |-> SwapLeg(pair[2], 5)] :
        pair \in {<<RawToken("DOT"), RawToken("IBTC")>>,
                  <<RawToken("IBTC"), RawToken("DOT")>>,
                  <<RawToken("DOT"), RawForeignAsset(1)>>},
        amount \in {1, 333, 1000000}}

PairStatuses ==
    {[kind |-> "Trading", value |-> [feeRate |-> f]] : f \in {0, 30, BasisPoint}}
    \cup {[kind |-> "Bootstrap"], [kind |-> "Disable"]}

\* The chain's statuses: the pair (DOT, IBTC) has the given one.
ChainPairStatuses(status) ==
    [key \in {<<RawToken("DOT"), RawToken("IBTC")>>} |-> status]

CallBuildNewSwapEntity ==
    \E poolType \in PoolTypes, swapDetails \in SwapEntityDetails,
       storageVersion \in StorageVersions, status \in PairStatuses :
        /\ op' = "buildNewSwapEntity"
        /\ arg0' = [poolType |-> poolType, swapDetails |-> swapDetails,
                    storageVersion |-> storageVersion]
        /\ arg1' = ChainPairStatuses(status)
        /\ res' = buildNewSwapEntity(poolType, swapDetails, storageVersion,
                                     ChainPairStatuses(status), blockHeight)
        /\ UNCHANGED machineVars

NextSwapEntity == CallBuildNewSwapEntity \/ NewBlock

SpecSwapEntity == Init /\ [][NextSwapEntity]_vars

(***************************************************************************)
(* Calls of createSwapDetailsAmounts and createPairWiseSwapDetails on the   *)
(* currencies and balances of a swap path.                                 *)
(***************************************************************************)
\* Longest swap path of the calls.
MaxPathLen == 3

PathCurrencies == {NativeToken("DOT"), NativeToken("IBTC"), LendToken(1)}

PathBalances == {3, 5}

\* The arguments of the calls: a list of currencies and a list of balances.
InitSwapDetails ==
    /\ op = "none"
    /\ res = Ok(0)
    /\ arg0 \in UNION {[1..n -> PathCurrencies] : n \in 0..MaxPathLen}
    /\ arg1 \in UNION {[1..n -> PathBalances] : n \in 0..MaxPathLen}
    /\ InitMachine

CallCreateSwapDetailsAmounts ==
    /\ op = "none"
    /\ op' = "createSwapDetailsAmounts"
    /\ res' = createSwapDetailsAmounts(arg0, arg1)
    /\ UNCHANGED <<arg0, arg1>>
    /\ UNCHANGED machineVars

\* The amounts that createSwapDetailsAmounts returned are paired, as in
\* dexGeneralAssetSwap (line 881).
CallCreatePairWiseSwapDetails ==
    /\ op = "createSwapDetailsAmounts"
    /\ res.ok
    /\ op' = "createPairWiseSwapDetails"
    /\ res' = Ok(createPairWiseSwapDetails(res.val))
    /\ UNCHANGED <<arg0, arg1>>
    /\ UNCHANGED machineVars

NextSwapDetails ==
    \/ CallCreateSwapDetailsAmounts
    \/ CallCreatePairWiseSwapDetails

SpecSwapDetails == InitSwapDetails /\ [][NextSwapDetails]_vars

(***************************************************************************)
(* The markets of several assets: created, updated, activated, flushed.    *)
(***************************************************************************)
\* Market events delivered in one run of the model of the markets.
MaxMarketEvents == 3

MarketAssets == {RawToken("DOT"), RawToken("IBTC"), RawForeignAsset(1)}

\* Loans.NewMarket and Loans.UpdatedMarket events of the assets, in the two
\* encodings.
AssetMarketEvents(name, stateKinds, cap) ==
    {[name |-> name, version |-> v, args |-> MarketArgs(v, cur, RawMarket(1, k, cap))] :
        v \in {"V1020000", "V1021000"}, cur \in MarketAssets, k \in stateKinds}

AssetActivatedMarketEvents ==
    {[name |-> "Loans.ActivatedMarket", version |-> "V1020000", args |-> cur] :
        cur \in MarketAssets}
    \cup {[name |-> "Loans.ActivatedMarket", version |-> "V1021000",
           args |-> [underlyingCurrencyId |-> cur]] : cur \in MarketAssets}

NewMarketOfAsset ==
    /\ eventNo < MaxMarketEvents
    /\ UNCHANGED twinVars
    /\ \E e \in AssetMarketEvents("Loans.NewMarket", {"Pending"}, 1) : newMarket(e)

UpdatedMarketOfAsset ==
    /\ eventNo < MaxMarketEvents
    /\ UNCHANGED twinVars
    /\ \E e \in AssetMarketEvents("Loans.UpdatedMarket", {"Active", "Supervision"}, 2) :
          updatedMarket(e)

ActivatedMarketOfAsset ==
    /\ eventNo < MaxMarketEvents
    /\ UNCHANGED twinVars
    /\ \E e \in AssetActivatedMarketEvents : activatedMarket(e)

NextMarkets ==
    \/ NewMarketOfAsset
    \/ UpdatedMarketOfAsset
    \/ ActivatedMarketOfAsset
    \/ Flush

SpecMarkets == Init /\ [][NextMarkets]_vars

(***************************************************************************)
(* Claims about the canonical ordering and keys (checked under SpecOrder). *)
(***************************************************************************)
\* The variant ranks and the token table as the design states them.
DesignRank(c) ==
    CASE c.isTypeOf = "NativeToken" -> 0
      [] c.isTypeOf = "ForeignAsset" -> 1
      [] c.isTypeOf = "LendToken" -> 2
      [] c.isTypeOf = "LpTokenPair" -> 3
      [] c.isTypeOf = "StableLpToken" -> 4

DesignTokenOrder == <<"DOT", "IBTC", "INTR", "KSM", "KBTC", "KINT">>

DesignIndex(c) ==
    CASE c.isTypeOf = "NativeToken" ->
            CHOOSE i \in 1..Len(DesignTokenOrder) : DesignTokenOrder[i] = c.token
      [] c.isTypeOf = "ForeignAsset" -> c.asset
      [] c.isTypeOf = "LendToken" -> c.lendTokenId
      [] c.isTypeOf = "StableLpToken" -> c.poolId

\* a sorts strictly before b: by rank, then by index (a, b not pairs).
DesignBefore(a, b) ==
    \/ DesignRank(a) < DesignRank(b)
    \/ DesignRank(a) = DesignRank(b) /\ DesignIndex(a) < DesignIndex(b)

IsPair(c) == c.isTypeOf = "LpTokenPair"
IsIndexed(c) == c \in KnownCurrencies /\ ~IsPair(c)

\* C1: compareCurrencies(a, b) is the negation of compareCurrencies(b, a);
\* one throws exactly when the other does.
C1_Antisymmetry ==
    op = "compareCurrencies" =>
        LET back == compareCurrencies(arg1, arg0)
        IN  /\ res.ok <=> back.ok
            /\ res.ok => res.val = -back.val
            /\ IsIndexed(arg0) /\ IsIndexed(arg1) => res.ok

C1_Witness ==
    /\ op = "compareCurrencies"
    /\ res.ok /\ res.val < 0
    /\ arg0.isTypeOf # arg1.isTypeOf

\* C2: orderCurrencies(a, b) and orderCurrencies(b, a) return the same tuple,
\* and the tuple is ascending: compareCurrencies(lo, hi) <= 0.
C2_OrderIndependent ==
    op = "orderCurrencies" =>
        LET back == orderCurrencies(arg1, arg0)
        IN  /\ res.ok <=> back.ok
            /\ res.ok =>
                /\ res.val = back.val
                /\ {res.val[1], res.val[2]} = {arg0, arg1}
                /\ compareCurrencies(res.val[1], res.val[2]).ok
                /\ compareCurrencies(res.val[1], res.val[2]).val <= 0
            /\ IsIndexed(arg0) /\ IsIndexed(arg1) => res.ok

C2_Witness ==
    /\ op = "orderCurrencies"
    /\ res.ok
    /\ res.val = <<arg1, arg0>>
    /\ arg0 # arg1

\* C3: inferGeneralPoolId(X, Y) = inferGeneralPoolId(Y, X), and the key is
\* "(" + currencyToString(lo) + "," + currencyToString(hi) + ")" for the
\* ordered pair (lo, hi).
C3_PoolIdSymmetric ==
    op = "inferGeneralPoolId" /\ IsIndexed(arg0) /\ IsIndexed(arg1) =>
        LET lo == IF DesignBefore(arg1, arg0) THEN arg1 ELSE arg0
            hi == IF DesignBefore(arg1, arg0) THEN arg0 ELSE arg1
        IN  /\ res.ok
            /\ res = inferGeneralPoolId(arg1, arg0)
            /\ res.val = "(" \o currencyToString(lo).val \o ","
                            \o currencyToString(hi).val \o ")"

C3_Witness ==
    /\ op = "inferGeneralPoolId"
    /\ arg0 = StableLpToken(1) /\ arg1 = NativeToken("KSM")
    /\ res = Ok("(KSM,poolId_1)")

\* C4: the comparison is a strict total order over the five variants: it
\* never fails, is 0 only for equal assets, and is transitive.
C4_StrictTotalOrder ==
    op = "compareCurrencies" /\ arg0 \in KnownCurrencies /\ arg1 \in KnownCurrencies =>
        /\ res.ok
        /\ res.val = 0 <=> arg0 = arg1
        /\ \A c \in KnownCurrencies :
              compareCurrencies(arg1, c).ok /\ compareCurrencies(arg0, c).ok
                  /\ res.val < 0 /\ compareCurrencies(arg1, c).val < 0
                    => compareCurrencies(arg0, c).val < 0

\* C5: the order is by variant rank first (NativeToken < ForeignAsset <
\* LendToken < pair token < StableLpToken), then by the token table or the id.
C5_RankThenIndex ==
    op = "compareCurrencies" /\ arg0 \in KnownCurrencies /\ arg1 \in KnownCurrencies =>
        /\ res.ok
        /\ DesignRank(arg0) < DesignRank(arg1) => res.val < 0
        /\ DesignRank(arg0) > DesignRank(arg1) => res.val > 0
        /\ DesignRank(arg0) = DesignRank(arg1) /\ ~IsPair(arg0) =>
              /\ DesignIndex(arg0) < DesignIndex(arg1) => res.val < 0
              /\ DesignIndex(arg0) > DesignIndex(arg1) => res.val > 0
              /\ DesignIndex(arg0) = DesignIndex(arg1) => res.val = 0

\* C6 as stated: every result of the comparison is -1, 0 or 1.
C6_ResultInMinusOneZeroOne ==
    op = "compareCurrencies" /\ res.ok => res.val \in {-1, 0, 1}

\* C6 as amended: a result of the comparison is an integer whose sign orders
\* the pair (negative: a first, zero: equal, positive: b first); it is the
\* difference of the ranks or of the indices, not one of -1, 0, 1.
C6_ResultSign ==
    op = "compareCurrencies" /\ res.ok =>
        /\ res.val \in Int
        /\ res.val < 0 <=> DesignBefore(arg0, arg1)
        /\ res.val > 0 <=> DesignBefore(arg1, arg0)
        /\ res.val = 0 <=> arg0 = arg1
        /\ res.val = IF DesignRank(arg0) # DesignRank(arg1)
                     THEN DesignRank(arg0) - DesignRank(arg1)
                     ELSE currencyToIndex(arg0).val - currencyToIndex(arg1).val

C6_Witness ==
    /\ op = "compareCurrencies"
    /\ res.ok
    /\ res.val > 1

IsUnknownRawLp(r) == r.kind \notin {"Token", "ForeignAsset", "StableLpToken"}
IsUnknownRaw(r) ==
    \/ r.kind \notin {"Token", "ForeignAsset", "LendToken", "StableLpToken", "LpToken"}
    \/ r.kind = "LpToken" /\ (IsUnknownRawLp(r.value[1]) \/ IsUnknownRawLp(r.value[2]))

\* C7: a currency of a variant outside the defined set makes the comparison,
\* the stringification, the pool key and the encoder throw; none returns.
C7_UnknownVariantThrows ==
    /\ op \in {"compareCurrencies", "orderCurrencies", "inferGeneralPoolId"}
          /\ (arg0 \in UnknownCurrencies \/ arg1 \in UnknownCurrencies)
          => ~res.ok
    /\ op = "currencyToString" /\ arg0 \in UnknownCurrencies => ~res.ok
    /\ op = "currencyId.encode" /\ IsUnknownRaw(arg0) => ~res.ok

C7_Witness ==
    /\ op = "compareCurrencies"
    /\ arg0 \in UnknownCurrencies /\ arg1 = arg0
    /\ ~res.ok

(***************************************************************************)
(* Claims about the exchange-rate log.                                     *)
(***************************************************************************)
Sample(block, symbol, rate) == [block |-> block, symbol |-> symbol, rate |-> rate]

\* C8: getRate(h, s) returns the most recent sample of symbol s with block
\* <= h, and the fallback rate 0.02 (with its note) exactly when there is
\* none; other symbols and later blocks do not influence the result.  With
\* samples at blocks 1 and 3 of rates 0.05 and 0.07: block 2 gives 0.05,
\* block 4 gives 0.07, block 0 the fallback.
C8_RateLookback ==
    op = "getRate" =>
        LET h == arg0
            s == arg1
            matching == {i \in 1..Len(rates) : rates[i].symbol = s /\ rates[i].block <= h}
            last == CHOOSE i \in matching : \A j \in matching : j <= i
            relevant == SelectSeq(rates, LAMBDA r : r.symbol = s /\ r.block <= h)
        IN  /\ res.ok
            /\ matching = {} <=> res.val.note
            /\ matching = {} => res.val.rate = Sample(h, s, DefaultRate)
            /\ matching # {} =>
                  /\ res.val.rate = rates[last]
                  /\ \A i \in matching : rates[i].block <= res.val.rate.block
            /\ res.val = getRate(relevant, h, s)
            /\ rates = <<Sample(1, "DOT", 5), Sample(3, "DOT", 7)>> /\ s = "DOT" =>
                  /\ h = 0 => res.val.rate.rate = DefaultRate
                  /\ h = 2 => res.val.rate.rate = 5
                  /\ h = 4 => res.val.rate.rate = 7

C8_Witness ==
    /\ op = "getRate"
    /\ rates = <<Sample(1, "DOT", 5), Sample(2, "IBTC", 7), Sample(3, "DOT", 7)>>
    /\ arg0 = 2 /\ arg1 = "DOT"
    /\ res.val = [rate |-> Sample(1, "DOT", 5), note |-> FALSE]

(***************************************************************************)
(* Claims about the handlers (checked under Spec).                         *)
(***************************************************************************)
\* A step that is a run of the named handler.
IsRunOf(name) == eventNo' = eventNo + 1 /\ op' = name

\* C9: the exchange-rate log is append-only and changes only when an
\* interest-accrual event is processed: a run of accrueInterest that
\* completes appends exactly one sample (block, symbol, rate) and keeps the
\* samples before it; rate queries, the flush and every other handler run
\* (the collateral handlers, which read the log, among them) leave the log
\* as it is.
C9_RateLogAppendOnly ==
    [][/\ IsRunOf("accrueInterest") /\ res'.ok =>
            /\ Len(rates') = Len(rates) + 1
            /\ SubSeq(rates', 1, Len(rates)) = rates
            /\ rates'[Len(rates')] =
                    Sample(blockHeight, arg0'.args.underlyingCurrencyId.value.kind,
                           (arg0'.args.exchangeRate * RateScale) \div FixedPointOne)
       /\ ~(IsRunOf("accrueInterest") /\ res'.ok) => rates' = rates
       /\ Len(rates') >= Len(rates)
       /\ \A i \in 1..Len(rates) : rates'[i] = rates[i]]_vars

\* A collateral deposit of a lend token has read the log that an interest
\* accrual wrote, and the log still holds that one sample.
C9_Witness ==
    /\ op = "depositCollateral"
    /\ res = Returned
    /\ arg0.version = "V1021000"
    /\ arg0.args.currencyId = RawLendToken(1)
    /\ pushed = <<<<"Deposit", EventId(2)>>>>
    /\ buffer[<<"Deposit", EventId(2)>>].comment.amount = 3 * 5
    /\ rates = <<Sample(1, "DOT", 5)>>

\* The handlers, and the spec versions each has a decoding rule for.
HandlerNames ==
    {"newMarket", "updatedMarket", "activatedMarket", "borrow", "depositCollateral",
     "withdrawCollateral", "depositForLending", "repay", "withdrawDeposit",
     "accrueInterest", "dexGeneralAssetSwap", "dexStableCurrencyExchange"}

DecodingRules(name) ==
    IF name \in {"accrueInterest", "dexGeneralAssetSwap", "dexStableCurrencyExchange"}
    THEN {"V1021000"}
    ELSE {"V1020000", "V1021000"}

\* C10: for every event kind, processing a raw event whose spec version
\* matches no decoding rule pushes no record to the buffer, leaves both caches
\* unchanged, records a warning, and completes without raising an exception.
C10_UnmatchedVersionSkipped ==
    [][(\E name \in HandlerNames :
            IsRunOf(name) /\ arg0'.version \notin DecodingRules(name)) =>
            /\ pushed' = <<>>
            /\ buffer' = buffer
            /\ rates' = rates
            /\ stablePoolCurrenciesCache' = stablePoolCurrenciesCache
            /\ res'.log = "warn"
            /\ res'.ok]_vars

\* The same event in the other of the two encodings: the positional tuple of
\* V1020000 for the named fields of V1021000 and back.
TwinEncoding(name, e) ==
    IF name \in {"newMarket", "updatedMarket"}
    THEN IF isV1020000(e)
         THEN [e EXCEPT !.version = "V1021000",
                        !.args = [underlyingCurrencyId |-> e.args[1], market |-> e.args[2]]]
         ELSE [e EXCEPT !.version = "V1020000",
                        !.args = <<e.args.underlyingCurrencyId, e.args.market>>]
    ELSE IF name = "activatedMarket"
    THEN IF isV1020000(e)
         THEN [e EXCEPT !.version = "V1021000", !.args = [underlyingCurrencyId |-> e.args]]
         ELSE [e EXCEPT !.version = "V1020000", !.args = e.args.underlyingCurrencyId]
    ELSE IF isV1020000(e)
         THEN [e EXCEPT !.version = "V1021000",
                        !.args = [accountId |-> e.args[1], currencyId |-> e.args[2],
                                  amount |-> e.args[3]]]
         ELSE [e EXCEPT !.version = "V1020000",
                        !.args = <<e.args.accountId, e.args.currencyId, e.args.amount>>]

LoanHandlerNames ==
    {"borrow", "depositForLending", "repay", "withdrawDeposit", "depositCollateral",
     "withdrawCollateral"}

\* The records the last handler run pushed, in order.
PushedRecords == [i \in 1..Len(pushed) |-> buffer[pushed[i]]]

\* C11: for each loan and market event kind with two encodings, the records
\* emitted for an event are the records of the same event in the other
\* encoding (same account, asset, amount or market parameters, block and
\* event id): the twin decodes to the same values, and the emitted records
\* carry exactly the values the twin decodes to.
C11_EncodingIndependent ==
    /\ op \in LoanHandlerNames /\ res = Returned =>
        LET twin == decodeAccountCurrencyAmount(TwinEncoding(op, arg0))
            record == PushedRecords[1]
        IN  /\ twin = decodeAccountCurrencyAmount(arg0)
            /\ Len(pushed) = 1
            /\ record.id = EventId(eventNo)
            /\ record.height = blockHeight
            /\ record.userParachainAddress = address_interlay_encode(twin.accountId)
            /\ record.token = currencyId_encode(twin.currencyId).val
            /\ record.amount = twin.amount
            /\ DOMAIN record \subseteq
                  {"id", "height", "userParachainAddress", "token", "amountField",
                   "amount", "comment"}
    /\ op \in {"newMarket", "updatedMarket"} /\ res = Returned =>
        LET twin == decodeMarket(TwinEncoding(op, arg0))
            record == PushedRecords[1]
            token == currencyId_encode(twin.underlyingCurrencyId).val
        IN  /\ twin = decodeMarket(arg0)
            /\ Len(pushed) = 1
            /\ record = LoanMarket(currencyToString(token).val, token, blockHeight,
                                   twin.market, record.state)
            /\ record.state = IF op = "updatedMarket" /\ twin.market.state.kind = "Supervision"
                              THEN "Supervision" ELSE "Pending"
    /\ op = "activatedMarket" /\ res = Returned =>
        LET twin == TwinEncoding(op, arg0)
            token == currencyId_encode(IF isV1020000(twin) THEN twin.args
                                       ELSE twin.args.underlyingCurrencyId).val
        IN  /\ Len(pushed) = 2
            /\ PushedRecords[1].token = token
            /\ PushedRecords[1].id = "loanMarket_" \o currencyToString(token).val
            /\ PushedRecords[2].id = PushedRecords[1].id
            /\ PushedRecords[2].activation = PushedRecords[1]

\* A borrow event in the positional encoding was processed and its record
\* carries the account, asset and amount of the tuple.
C11_Witness ==
    /\ op = "borrow" /\ res = Returned
    /\ isV1020000(arg0)
    /\ arg0.args = <<1, RawToken("DOT"), 3>>
    /\ PushedRecords = <<LoanOrDeposit(EventId(eventNo), blockHeight, "acc1",
                                      NativeToken("DOT"), "amountBorrowed", 3)>>

(***************************************************************************)
(* Claims about the stable pool currencies cache (checked under SpecPools).*)
(***************************************************************************)
\* The step is a call of getStablePoolCurrencyByIndex.
IsLookup == op' = "getStablePoolCurrencyByIndex" /\ pools' = pools

\* The member list of pool poolId as a fetch from chain encodes it.
FetchedCurrencies(chain, poolId) ==
    [i \in 1..Len(chain[poolId].currencyIds) |-> CurrencyPair(chain[poolId].currencyIds[i])]

OutOfRange == Err("Unable to find currency in DexStablePoolsStorage")

\* C12: after a lookup fetched pool p from storage the cache holds p's
\* member list; a lookup of (p, i) with i inside the cached list returns the
\* cached entry with no read of storage and leaves the cache as it was; and
\* no step but clearPoolCurrencies removes an entry of the cache (an entry
\* changes only by a fetch of its pool, to the fetched list).
C12_CachedListServed ==
    [][/\ IsLookup /\ res'.fetches = 1 /\ (res'.result.ok \/ res'.result = OutOfRange)
          => /\ arg0'.poolId \in DOMAIN stablePoolCurrenciesCache'
             /\ stablePoolCurrenciesCache'[arg0'.poolId] =
                    FetchedCurrencies(pools, arg0'.poolId)
       /\ IsLookup /\ arg0'.poolId \in DOMAIN stablePoolCurrenciesCache
          /\ arg0'.index < Len(stablePoolCurrenciesCache[arg0'.poolId])
          => /\ res'.fetches = 0
             /\ res'.result = Ok(stablePoolCurrenciesCache[arg0'.poolId][arg0'.index + 1])
             /\ stablePoolCurrenciesCache' = stablePoolCurrenciesCache
       /\ \/ op' = "clearPoolCurrencies" /\ stablePoolCurrenciesCache' = <<>>
          \/ \A p \in DOMAIN stablePoolCurrenciesCache :
                /\ p \in DOMAIN stablePoolCurrenciesCache'
                /\ \/ stablePoolCurrenciesCache'[p] = stablePoolCurrenciesCache[p]
                   \/ /\ p \in DOMAIN pools
                      /\ stablePoolCurrenciesCache'[p] = FetchedCurrencies(pools, p)
      ]_vars

\* C12: pool 0 was cached with two members, grew to three on the chain, and
\* a lookup of index 1 was then answered from the cache.
C12_Witness ==
    /\ op = "getStablePoolCurrencyByIndex"
    /\ arg0 = [poolId |-> 0, index |-> 1, storageVersion |-> "V1021000"]
    /\ res = [result |-> Ok(CurrencyPair(RawToken("IBTC"))), fetches |-> 0]
    /\ Len(pools[0].currencyIds) = 3
    /\ Len(stablePoolCurrenciesCache[0]) = 2

\* The step is a lookup of an index outside the cached list of its pool.
IsLookupOutsideCached ==
    /\ IsLookup
    /\ arg0'.poolId \in DOMAIN stablePoolCurrenciesCache
    /\ arg0'.index >= Len(stablePoolCurrenciesCache[arg0'.poolId])

StorageErrors ==
    {Err("DexStable.Pools storage is not defined for this spec version"),
     Err("Unknown DexStablePoolsStorage version")}

\* C13 (as stated): every lookup of an index outside the cached list reads
\* the pool from storage exactly once and either returns the entry of the
\* re-fetched list or fails with the index-out-of-range error.
C13_OneRefetchAlways ==
    [][IsLookupOutsideCached
          => /\ res'.fetches = 1
             /\ res'.result =
                    IF arg0'.index < Len(pools[arg0'.poolId].currencyIds)
                    THEN Ok(FetchedCurrencies(pools, arg0'.poolId)[arg0'.index + 1])
                    ELSE OutOfRange
      ]_vars

\* C13 (amended): where the pools storage is readable at the block's spec
\* version (V1021000), a lookup of an index outside the cached list reads the
\* pool from storage exactly once and returns the entry of the re-fetched
\* list if it contains the index, else fails with the index-out-of-range
\* error; where it is not readable the lookup fails with a storage error and
\* no read; no lookup reads the pool more than once, and none fails with the
\* index-out-of-range error without a read.
C13_OneRefetchWhenReadable ==
    [][/\ IsLookupOutsideCached /\ arg0'.storageVersion = "V1021000"
          => /\ res'.fetches = 1
             /\ res'.result =
                    IF arg0'.index < Len(pools[arg0'.poolId].currencyIds)
                    THEN Ok(FetchedCurrencies(pools, arg0'.poolId)[arg0'.index + 1])
                    ELSE OutOfRange
       /\ IsLookupOutsideCached /\ arg0'.storageVersion # "V1021000"
          => /\ res'.fetches = 0
             /\ res'.result \in StorageErrors
             /\ stablePoolCurrenciesCache' = stablePoolCurrenciesCache
       /\ IsLookup => /\ res'.fetches \in {0, 1}
                      /\ res'.result = OutOfRange => res'.fetches = 1
      ]_vars

\* C13: index 2 was looked up against a cached list of two entries of a pool
\* that still has two members: one read, then the index-out-of-range error.
C13_Witness ==
    /\ op = "getStablePoolCurrencyByIndex"
    /\ arg0 = [poolId |-> 0, index |-> 2, storageVersion |-> "V1021000"]
    /\ res = [result |-> OutOfRange, fetches |-> 1]
    /\ Len(stablePoolCurrenciesCache[0]) = 2
    /\ Len(pools[0].currencyIds) = 2

\* The step is a lookup the cache cannot answer.
IsLookupMiss ==
    /\ IsLookup
    /\ \/ arg0'.poolId \notin DOMAIN stablePoolCurrenciesCache
       \/ arg0'.index >= Len(stablePoolCurrenciesCache[arg0'.poolId])

PoolNotFound == Err("Unable to find stable pool in storage for given poolId")

PoolTypeUnsupported == Err("Found pool for given poolId, but it is an unexpected pool type")

\* The error of a missed lookup of a pool that the chain does not have, or
\* has with a type that is neither base nor meta.
PoolError(chain, poolId) ==
    IF poolId \notin DOMAIN chain THEN PoolNotFound ELSE PoolTypeUnsupported

HasNoUsablePool(chain, poolId) ==
    \/ poolId \notin DOMAIN chain
    \/ ~isBasePool(chain[poolId]) /\ ~isMetaPool(chain[poolId])

\* C14 (as stated): every lookup the cache cannot answer fails with
\* PoolNotFound when the chain has no pool for the id and with
\* PoolTypeUnsupported when the pool is neither base nor meta, and leaves the
\* cache as it was.
C14_PoolErrorsAlways ==
    [][IsLookupMiss /\ HasNoUsablePool(pools, arg0'.poolId)
          => /\ res'.result = PoolError(pools, arg0'.poolId)
             /\ stablePoolCurrenciesCache' = stablePoolCurrenciesCache
      ]_vars

\* C14 (amended): a lookup the cache cannot answer, for a pool the chain does
\* not have or has with a type that is neither base nor meta, leaves the
\* cache as it was; it fails with PoolNotFound, respectively
\* PoolTypeUnsupported, where the pools storage is readable at the block's
\* spec version (V1021000), and with a storage error otherwise.
C14_PoolErrorsWhenReadable ==
    [][IsLookupMiss /\ HasNoUsablePool(pools, arg0'.poolId)
          => /\ stablePoolCurrenciesCache' = stablePoolCurrenciesCache
             /\ res'.result =
                    IF arg0'.storageVersion = "V1021000"
                    THEN PoolError(pools, arg0'.poolId)
                    ELSE IF arg0'.storageVersion = "none"
                    THEN Err("DexStable.Pools storage is not defined for this spec version")
                    ELSE Err("Unknown DexStablePoolsStorage version")
      ]_vars

\* C14: with pool 0 cached, a lookup of pool 2 (of a future type) failed with
\* PoolTypeUnsupported and the cache has no entry for pool 2.
C14_Witness ==
    /\ op = "getStablePoolCurrencyByIndex"
    /\ arg0 = [poolId |-> 2, index |-> 0, storageVersion |-> "V1021000"]
    /\ res = [result |-> PoolTypeUnsupported, fetches |-> 1]
    /\ DOMAIN stablePoolCurrenciesCache = {0}

(***************************************************************************)
(* Claims about the swap handlers and the aggregates (checked under Spec). *)
(***************************************************************************)
\* The last handler run was of a recognized stable exchange event whose two
\* indices are inside the member list of its pool.
IsResolvedExchange ==
    /\ op = "dexStableCurrencyExchange"
    /\ isV1021000(arg0)
    /\ arg0.args.poolId \in DOMAIN stablePoolCurrenciesCache
    /\ arg0.args.inIndex < Len(stablePoolCurrenciesCache[arg0.args.poolId])
    /\ arg0.args.outIndex < Len(stablePoolCurrenciesCache[arg0.args.poolId])

\* C15: a recognized stable exchange event of pool p with inIndex i and
\* outIndex j inside p's member list is processed to the end, and the
\* per-pool, per-account and global aggregates are written with the legs
\* (Ai, inAmount) and (Aj, outAmount).
C15_StableLegsResolved ==
    IsResolvedExchange
    => LET members == stablePoolCurrenciesCache[arg0.args.poolId]
           legs == <<[currency |-> members[arg0.args.inIndex + 1].currency,
                      atomicAmount |-> arg0.args.inAmount],
                     [currency |-> members[arg0.args.outIndex + 1].currency,
                      atomicAmount |-> arg0.args.outAmount]>>
       IN  /\ res = Returned
           /\ pushed = <<<<"CumulativeDexTradingVolumePerPool", ToString(arg0.args.poolId)>>,
                         <<"CumulativeDexTradingVolume", "total">>,
                         <<"CumulativeDexTradingVolumePerAccount",
                           address_interlay_encode(arg0.args.who)>>,
                         <<"CumulativeDexTradeCount", "total">>,
                         <<"CumulativeDexTradeCountPerAccount",
                           address_interlay_encode(arg0.args.who)>>>>
           /\ \A k \in 1..3 :
                 \A c \in DOMAIN addPooledAmounts(<<>>, legs) :
                    /\ c \in DOMAIN buffer[pushed[k]].amounts
                    /\ buffer[pushed[k]].amounts[c] >= addPooledAmounts(<<>>, legs)[c]

\* The scope of an aggregate record kind: 1 per pool, 2 per account,
\* 3 global.
ScopeOf(kind) ==
    IF kind = "CumulativeDexTradingVolumePerPool" THEN 1
    ELSE IF kind \in {"CumulativeDexTradingVolumePerAccount",
                      "CumulativeDexTradeCountPerAccount"} THEN 2
    ELSE 3

SwapHandlerNames == {"dexGeneralAssetSwap", "dexStableCurrencyExchange"}

\* C16: the aggregate records of a swap event are written in the order per
\* pool, then per account, then global: no record of the event is written
\* before a record of a narrower scope of the same event.
C16_ScopeOrder ==
    op \in SwapHandlerNames
    => \A i, j \in 1..Len(pushed) :
          i < j => ScopeOf(pushed[i][1]) <= ScopeOf(pushed[j][1])

PerPool == "CumulativeDexTradingVolumePerPool"

\* The ids of the per-pool volume entities of a buffer and a store.
VolumeKeys(buf, st) == {k[2] : k \in {x \in DOMAIN buf \cup DOMAIN st : x[1] = PerPool}}

\* The last known cumulative volume of pool key in currency c.
PoolTotal(buf, st, key, c) ==
    LET latest == latestEntity(buf, st, PerPool, key)
    IN  IF latest = Undefined THEN 0
        ELSE IF c \notin DOMAIN latest.amounts THEN 0
        ELSE latest.amounts[c]

\* The legs of a processed standard swap event.
LegsOf(rawEvent) ==
    LET swapPath == rawEvent.args[3]
    IN  createPairWiseSwapDetails(
            [i \in 1..Len(swapPath) |->
                [currency |-> currencyId_encode(swapPath[i]).val,
                 atomicAmount |-> rawEvent.args[4][i]]])

\* What one leg adds to the volume of pool key in currency c.
LegContribution(leg, key, c) ==
    IF inferGeneralPoolId(leg.from.currency, leg.to.currency) # Ok(key) THEN 0
    ELSE (IF currencyToString(leg.from.currency) = Ok(c) THEN leg.from.atomicAmount ELSE 0)
         + (IF currencyToString(leg.to.currency) = Ok(c) THEN leg.to.atomicAmount ELSE 0)

RECURSIVE Contribution(_, _, _)
Contribution(legs, key, c) ==
    IF legs = <<>> THEN 0
    ELSE LegContribution(Head(legs), key, c) + Contribution(Tail(legs), key, c)

VolumeCurrencies == {"DOT", "IBTC"}

\* C17: every processed swap event adds its own contribution to the last
\* known cumulative volume of its pool (the sum of its legs on that pool),
\* whether the last total is buffered or stored; no other step, the flush
\* included, changes a pool's total, and no step decreases it.
C17_VolumeIsSumOfContributions ==
    [][\A key \in VolumeKeys(buffer, store) \cup VolumeKeys(buffer', store') :
         \A c \in VolumeCurrencies :
            /\ PoolTotal(buffer', store', key, c) >= PoolTotal(buffer, store, key, c)
            /\ IsRunOf("dexGeneralAssetSwap") /\ res' = Returned
               => PoolTotal(buffer', store', key, c)
                    = PoolTotal(buffer, store, key, c) + Contribution(LegsOf(arg0'), key, c)
            /\ ~IsRunOf("dexGeneralAssetSwap")
               => PoolTotal(buffer', store', key, c) = PoolTotal(buffer, store, key, c)
      ]_vars

\* C17: the same two-leg swap (DOT 3 -> IBTC 5 -> DOT 4) was processed twice
\* in one batch: the pool's totals are twice the event's contribution.
C17_Witness ==
    /\ op = "dexGeneralAssetSwap"
    /\ res = Returned
    /\ eventNo = 2
    /\ store = <<>>
    /\ Len(arg0.args[3]) = 3
    /\ PoolTotal(buffer, store, "(DOT,IBTC)", "DOT") = 14
    /\ PoolTotal(buffer, store, "(DOT,IBTC)", "IBTC") = 20

(***************************************************************************)
(* Claim about two runs on the same inputs (checked under SpecTwin).       *)
(***************************************************************************)
\* The second run has processed all the inputs of the first.
BothRunsDone == replay # NoArg /\ replay.done = Len(log)

RecordedStatus ==
    LET from == arg0.swapDetails.from.currencyId
        to == arg0.swapDetails.to.currencyId
    IN  IF <<from, to>> \in DOMAIN arg1 THEN arg1[<<from, to>>]
        ELSE IF <<to, from>> \in DOMAIN arg1 THEN arg1[<<to, from>>]
        ELSE [kind |-> "Disable"]

\* The last call was for a standard pool whose pair is Trading, with the
\* statuses readable.
IsTradingCall ==
    /\ op = "buildNewSwapEntity"
    /\ arg0.poolType = "Standard"
    /\ arg0.storageVersion = "V1021000"
    /\ RecordedStatus.kind = "Trading"

\* C19: for a pair that is Trading at fee f basis points the swap entity is
\* built and its fee leg's atomic amount is floor(f * 0.0001 * fromAmount):
\* an integer, not above f * fromAmount / 10000 and less than one below it,
\* at most fromAmount for f up to 10000, and 3000 for 30 basis points of
\* 1000000.
C19_FeeIsFloor ==
    IsTradingCall
    => LET f == RecordedStatus.value.feeRate
           fromAmount == arg0.swapDetails.from.atomicAmount
       IN  /\ res.ok
           /\ res.val.fees.atomicAmount \in Nat
           /\ res.val.fees.atomicAmount * BasisPoint <= f * fromAmount
           /\ (res.val.fees.atomicAmount + 1) * BasisPoint > f * fromAmount
           /\ f <= BasisPoint => res.val.fees.atomicAmount <= fromAmount
           /\ f = 30 /\ fromAmount = 1000000 => res.val.fees.atomicAmount = 3000

\* The last call was one in which no Trading fee applies: a stable pool, or
\* a pair whose recorded status is not Trading.
IsZeroFeeCall ==
    /\ op = "buildNewSwapEntity"
    /\ arg0.storageVersion = "V1021000"
    /\ arg0.poolType = "Stable" \/ RecordedStatus.kind # "Trading"

\* C20: the fee rate of the swap entity is the recorded rate (basis points
\* times 0.0001) when the pair is Trading and zero otherwise, and in the zero
\* case the entity is still built, with a fee amount of zero.
C20_ZeroFeeUnlessTrading ==
    /\ IsZeroFeeCall
       => /\ res.ok
          /\ res.val.feeRate.num = 0
          /\ res.val.fees.atomicAmount = 0
    /\ IsTradingCall /\ res.ok
       => res.val.feeRate = Big_mul_0_0001(Big(RecordedStatus.value.feeRate))

(***************************************************************************)
(* Further claims about the swap handlers (checked under Spec).            *)
(***************************************************************************)
\* The fee of one leg at a fee rate of f basis points, as buildNewSwapEntity
\* is meant to compute it: in the from currency, rounded down.
LegFee(leg, f) == (f * leg.from.atomicAmount) \div BasisPoint

\* What the fee of one leg would add to the volume of pool key in currency c.
LegFeeContribution(leg, f, key, c) ==
    IF inferGeneralPoolId(leg.from.currency, leg.to.currency) # Ok(key) THEN 0
    ELSE IF currencyToString(leg.from.currency) = Ok(c) THEN LegFee(leg, f)
    ELSE 0

RECURSIVE FeeContribution(_, _, _, _)
FeeContribution(legs, f, key, c) ==
    IF legs = <<>> THEN 0
    ELSE LegFeeContribution(Head(legs), f, key, c)
         + FeeContribution(Tail(legs), f, key, c)

TradingFeeRates == {status.value.feeRate : status \in {x \in PairStatuses : x.kind = "Trading"}}

\* C21: a processed swap event adds to the volume of its pool the legs and
\* the fee of the swap, whatever fee rate the chain records for the pair.
C21_FeeFoldedIntoVolumes ==
    [][IsRunOf("dexGeneralAssetSwap") /\ res' = Returned
          => \A f \in TradingFeeRates :
             \A key \in VolumeKeys(buffer', store') :
             \A c \in VolumeCurrencies :
                PoolTotal(buffer', store', key, c)
                  = PoolTotal(buffer, store, key, c)
                    + Contribution(LegsOf(arg0'), key, c)
                    + FeeContribution(LegsOf(arg0'), f, key, c)
      ]_vars

\* The keys pushed by the handler run that the step is.
PushedKeys == {pushed'[i] : i \in 1..Len(pushed')}

TotalCountKey == <<"CumulativeDexTradeCount", "total">>

\* C22: the buffer holds one pending record per (kind, id).  A handler run
\* leaves the records of the keys it does not push as they were and adds no
\* key it does not push; the record of a key it pushes is the one pushed
\* last for the key, also when the batch already held a record for it: the
\* market record is the one built from the event, the global trade count the
\* one counted last.
C22_BufferCoalesces ==
    [][eventNo' = eventNo + 1
          => /\ DOMAIN buffer' = DOMAIN buffer \cup PushedKeys
             /\ \A k \in DOMAIN buffer \ PushedKeys : buffer'[k] = buffer[k]
             /\ \A k \in PushedKeys : buffer'[k].id = k[2]
             /\ op' \in {"newMarket", "updatedMarket"} /\ res' = Returned
                => LET e == decodeMarket(arg0')
                       token == currencyId_encode(e.underlyingCurrencyId).val
                   IN  /\ pushed' = <<<<"LoanMarket",
                                        "loanMarket_" \o currencyToString(token).val>>>>
                       /\ buffer'[pushed'[1]] =
                            LoanMarket(currencyToString(token).val, token, blockHeight,
                                       e.market,
                                       IF op' = "updatedMarket"
                                          /\ e.market.state.kind = "Supervision"
                                       THEN "Supervision" ELSE "Pending")
             /\ TotalCountKey \in PushedKeys /\ TotalCountKey \in DOMAIN buffer
                => buffer'[TotalCountKey].count = buffer[TotalCountKey].count + 1
      ]_vars

\* C22: a market was created and then updated to Supervision in one batch:
\* the buffer holds one market record, the updated one.
C22_Witness ==
    /\ op = "updatedMarket" /\ res = Returned
    /\ eventNo = 2
    /\ store = <<>>
    /\ DOMAIN buffer = {pushed[1]}
    /\ buffer[pushed[1]].state = "Supervision"
    /\ buffer[pushed[1]].borrowCap = 2

\* The step is a run of dexGeneralAssetSwap on a recognized event whose swap
\* path and balances differ in length.
IsMismatchedSwap ==
    /\ IsRunOf("dexGeneralAssetSwap")
    /\ isV1021000(arg0')
    /\ Len(arg0'.args[3]) # Len(arg0'.args[4])

\* Every currency of the path of the event is one the encoder knows and a
\* pooled token.
HasPooledPath(rawEvent) ==
    \A i \in 1..Len(rawEvent.args[3]) :
        /\ currencyId_encode(rawEvent.args[3][i]).ok
        /\ isPooledToken(currencyId_encode(rawEvent.args[3][i]).val)

\* C23: a standard swap event whose currency list and balance list differ in
\* length pushes nothing and leaves the buffer, the store, the rate log and
\* the pool cache as they were; for a path of pooled tokens the mismatch is
\* logged as an error and the handler returns.
C23_MismatchAbortsEvent ==
    [][IsMismatchedSwap
          => /\ pushed' = <<>>
             /\ UNCHANGED <<buffer, store, rates, stablePoolCurrenciesCache, pools>>
             /\ HasPooledPath(arg0')
                => res' = LoggedError("Cannot create SwapDetailsAmounts; currency count ["
                                      \o ToString(Len(arg0'.args[3]))
                                      \o "] does not match balance count ["
                                      \o ToString(Len(arg0'.args[4])) \o "]")
      ]_vars

\* C23: after a processed swap, a swap with two currencies and three
\* balances was skipped; the aggregates of the first swap are still buffered.
C23_Witness ==
    /\ op = "dexGeneralAssetSwap"
    /\ eventNo = 2
    /\ Len(arg0.args[3]) = 2 /\ Len(arg0.args[4]) = 3
    /\ res = LoggedError("Cannot create SwapDetailsAmounts; currency count [2] does not match balance count [3]")
    /\ pushed = <<>>
    /\ TotalCountKey \in DOMAIN buffer
    /\ buffer[TotalCountKey].count = 1

(***************************************************************************)
(* Claims about the markets (checked under SpecMarkets).                   *)
(***************************************************************************)
\* The asset of a market event, encoded.
MarketAssetOf(rawEvent) ==
    currencyId_encode(
        IF rawEvent.name = "Loans.ActivatedMarket"
        THEN (IF isV1020000(rawEvent) THEN rawEvent.args
              ELSE rawEvent.args.underlyingCurrencyId)
        ELSE decodeMarket(rawEvent).underlyingCurrencyId).val

MarketIdOf(currency) == "loanMarket_" \o currencyToString(currency).val

\* The market records pending in the buffer or stored.
MarketRecords ==
    {buffer[k] : k \in {x \in DOMAIN buffer : x[1] = "LoanMarket"}}
    \cup {store[k] : k \in {x \in DOMAIN store : x[1] = "LoanMarket"}}

MarketHandlerNames == {"newMarket", "updatedMarket", "activatedMarket"}

\* C24: a market event that is processed addresses the market record whose id
\* is "loanMarket_" and the string of the event's asset, whichever of the
\* three kinds the event is; every market record, pending or stored, is kept
\* under the id made of its own asset, so that two records of one asset are
\* the pending and the stored version under one key, and records of
\* different assets have different ids.
C24_MarketIdentityIsAsset ==
    /\ op \in MarketHandlerNames /\ res = Returned
       => \A i \in 1..Len(pushed) :
             /\ pushed[i][2] = MarketIdOf(MarketAssetOf(arg0))
             /\ buffer[pushed[i]].token = MarketAssetOf(arg0)
    /\ \A k \in DOMAIN buffer \cup DOMAIN store :
          k[1] = "LoanMarket"
          => LET r == latestEntity(buffer, store, "LoanMarket", k[2])
             IN  r.id = k[2] /\ r.id = MarketIdOf(r.token)
    /\ \A r1, r2 \in MarketRecords :
          (r1.token = r2.token) <=> (r1.id = r2.id)

\* C24: the market of DOT was created, stored, and updated; the market of
\* IBTC was created: one stored and one pending record for DOT under one id,
\* and one pending record for IBTC under another.
C24_Witness ==
    /\ eventNo = 3
    /\ DOMAIN store = {<<"LoanMarket", "loanMarket_DOT">>}
    /\ DOMAIN buffer = {<<"LoanMarket", "loanMarket_DOT">>, <<"LoanMarket", "loanMarket_IBTC">>}
    /\ buffer[<<"LoanMarket", "loanMarket_DOT">>].borrowCap = 2
    /\ store[<<"LoanMarket", "loanMarket_DOT">>].borrowCap = 1

\* The step is a run of activatedMarket on a recognized event for an asset
\* that has no market record, stored or pending.
IsActivationWithoutMarket ==
    /\ IsRunOf("activatedMarket")
    /\ isV1020000(arg0') \/ isV1021000(arg0')
    /\ \A r \in MarketRecords : r.token # MarketAssetOf(arg0')

NoMarketWarning ==
    Warned("WARNING: ActivatedMarket event did not match any existing LoanMarkets! Skipping.")

\* C25: a market-activated event for an asset with no market record pushes
\* nothing, leaves the buffer and the store as they were, logs a warning
\* and returns.
C25_ActivationWithoutMarketSkipped ==
    [][IsActivationWithoutMarket
          => /\ pushed' = <<>>
             /\ UNCHANGED <<buffer, store>>
             /\ res' = NoMarketWarning
      ]_vars

\* C25: with the market of DOT stored, an activation of IBTC, which has no
\* market, was skipped with the warning.
C25_Witness ==
    /\ op = "activatedMarket"
    /\ MarketAssetOf(arg0) = NativeToken("IBTC")
    /\ res = NoMarketWarning
    /\ pushed = <<>>
    /\ DOMAIN store = {<<"LoanMarket", "loanMarket_DOT">>}
    /\ buffer = <<>>

(***************************************************************************)
(* Claims about the ids of the per-event records.                          *)
(***************************************************************************)
\* The identifiers of the events of a run.
EventIds == {EventId(n) : n \in 0..MaxEvents}

\* C26: every per-event record has the id of the event that produced it; for
\* a swap: a call of buildNewSwapEntity returns a Swap record, and the record
\* it constructs from its inputs has the identifier of an event as its id.
C26_SwapIdIsEventId ==
    op = "buildNewSwapEntity"
        => /\ res.ok
           /\ newSwap(arg0.swapDetails, arg0.swapDetails.from, Big(0), blockHeight).id
                  \in EventIds

\* The loan, deposit and interest records do take the id of their event.
LoanIdsAreEventIds ==
    (op \in LoanHandlerNames \cup {"accrueInterest"} /\ res.ok)
        => \A i \in 1..Len(pushed) :
              pushed[i][1] \in {"Loan", "Deposit", "InterestAccrual"}
                  => /\ pushed[i][2] = EventId(eventNo)
                     /\ buffer[pushed[i]].id = EventId(eventNo)

(***************************************************************************)
(* Claims about the failures of the stable-pool exchange.                  *)
(***************************************************************************)
\* The step is a run of dexStableCurrencyExchange on an event whose pool the
\* chain does not have.
IsExchangeOfAbsentPool ==
    /\ IsRunOf("dexStableCurrencyExchange")
    /\ isV1021000(arg0')
    /\ arg0'.args.poolId \notin DOMAIN pools

\* C27: an exchange event of a pool absent from the chain's state is logged
\* and skipped: the handler returns without an error leaving it, it logs,
\* and it pushes no record.
C27_AbsentPoolIsLocal ==
    [][IsExchangeOfAbsentPool
          => /\ res'.ok
             /\ res'.log \in {"warn", "error"}
             /\ pushed' = <<>>
             /\ buffer' = buffer
      ]_vars

(***************************************************************************)
(* Claims about clearing the caches (checked under SpecCaches).            *)
(***************************************************************************)
\* The step is an explicit clear.
IsClear == op' = "clearPoolCurrencies" /\ res' = Returned /\ UNCHANGED eventNo

\* C28: after an explicit clear the pool cache is empty and the exchange-rate
\* log holds no samples, so every query gives the fallback rate; a step that
\* is not a clear removes no entry of either cache.
C28_ClearEmptiesBothCaches ==
    [][/\ IsClear
          => /\ stablePoolCurrenciesCache' = <<>>
             /\ rates' = <<>>
             /\ \A h \in 0..MaxHeight, symbol \in {"DOT", "IBTC"} :
                    getRate(rates', h, symbol).rate.rate = DefaultRate
       /\ ~IsClear
          => /\ DOMAIN stablePoolCurrenciesCache \subseteq DOMAIN stablePoolCurrenciesCache'
             /\ Len(rates) <= Len(rates')
             /\ SubSeq(rates', 1, Len(rates)) = rates
      ]_vars

\* What does hold: the clear empties the pool cache, and the exchange-rate
\* log never loses a sample, clear or no clear.
ClearEmptiesPoolCacheOnly ==
    [][/\ IsClear => stablePoolCurrenciesCache' = <<>>
       /\ ~IsClear
          => DOMAIN stablePoolCurrenciesCache \subseteq DOMAIN stablePoolCurrenciesCache'
       /\ Len(rates) <= Len(rates')
       /\ SubSeq(rates', 1, Len(rates)) = rates
      ]_vars

(***************************************************************************)
(* Claims about the join of the four updates (checked under SpecJoin).     *)
(***************************************************************************)
\* The keys of the four aggregates of an account, in the order of the pushes.
JoinKeys(accountId) ==
    <<<<"CumulativeDexTradingVolume", "total">>,
      <<"CumulativeDexTradingVolumePerAccount", accountId>>,
      <<"CumulativeDexTradeCount", "total">>,
      <<"CumulativeDexTradeCountPerAccount", accountId>>>>

\* The step is the join of the updates in flight.
IsJoin == inflight # NoArg /\ inflight' = NoArg

\* C29: the four updates of a swap are joined before any result is written
\* (while one is pending the buffer stays as it was at the dispatch), the
\* join pushes the results in the order total volume, volume per account,
\* total count, count per account, and the buffer after the join is the one
\* the four updates give when each is taken on the buffer of the dispatch,
\* whatever the order in which they completed.
C29_JoinThenFixedOrder ==
    [][/\ (inflight # NoArg /\ inflight.pending # {})
          => /\ buffer' = buffer
             /\ buffer = inflight.buffer
             /\ inflight' # NoArg
       /\ IsJoin
          => /\ inflight.pending = {}
             /\ Len(inflight.order) = 4
             /\ SubSeq(pushed', Len(pushed') - 3, Len(pushed')) = JoinKeys(inflight.accountId)
             /\ buffer' = pushAll(inflight.buffer,
                                  updateTotalAndPerAccountVolumesAndTradeCounts(
                                      inflight.amounts, inflight.accountId, store,
                                      inflight.buffer))
      ]_vars

\* C29: the second swap of a batch was joined after its updates had completed
\* in the reverse of the order of their dispatch; the totals count two trades.
C29_Witness ==
    /\ op = "dexGeneralAssetSwap"
    /\ eventNo = 2
    /\ inflight = NoArg
    /\ arg1 = <<"totalCount", "tradeCountPerAccount", "totalVolume", "volumePerAccount">>
    /\ store = <<>>
    /\ buffer[<<"CumulativeDexTradeCount", "total">>].count = 2
    /\ SubSeq(pushed, Len(pushed) - 3, Len(pushed)) = JoinKeys(address_interlay_encode(1))

(***************************************************************************)
(* Claim about the loop over the legs of a swap path (checked under Spec). *)
(***************************************************************************)
\* The pool of a leg.
LegPool(leg) == inferGeneralPoolId(leg.from.currency, leg.to.currency).val

\* The total of pool key in currency c after the first i legs: the last known
\* total before the event plus what the legs 1..i add to it.
RunningTotal(legs, i, key, c) ==
    PoolTotal(buffer, store, key, c) + Contribution(SubSeq(legs, 1, i), key, c)

\* The amount of currency c in a volume entity.
AmountIn(entity, c) == IF c \in DOMAIN entity.amounts THEN entity.amounts[c] ELSE 0

\* C30: in a processed standard swap the updates of the legs run one after
\* the other: the record pushed for leg i holds the total its pool had before
\* the event plus the contributions of the legs 1..i on that pool (so a leg
\* reads what the legs before it pushed), the records are pushed in the order
\* of the legs, and the buffer ends with the total after the last leg.
C30_LegsOneAfterAnother ==
    [][(IsRunOf("dexGeneralAssetSwap") /\ res' = Returned)
          => LET legs == LegsOf(arg0')
                 perPool == standardPoolPushes(store, legs)
             IN  /\ perPool.ok
                 /\ Len(perPool.pushes) = Len(legs)
                 /\ Len(pushed') = Len(legs) + 4
                 /\ \A i \in 1..Len(legs) :
                       /\ pushed'[i] = <<PerPool, LegPool(legs[i])>>
                       /\ perPool.pushes[i][2].id = LegPool(legs[i])
                       /\ \A c \in VolumeCurrencies :
                             /\ AmountIn(perPool.pushes[i][2], c)
                                   = RunningTotal(legs, i, LegPool(legs[i]), c)
                             /\ AmountIn(buffer'[pushed'[i]], c)
                                   = RunningTotal(legs, Len(legs), LegPool(legs[i]), c)
      ]_vars

\* C30: the first event of a batch was a swap on the path DOT, IBTC, DOT
\* (3, 5, 4): both legs hit the pool (DOT,IBTC), whose total holds both
\* contributions, DOT 3 + 4 and IBTC 5 + 5.
C30_Witness ==
    /\ op = "dexGeneralAssetSwap"
    /\ res = Returned
    /\ eventNo = 1
    /\ Len(arg0.args[3]) = 3
    /\ pushed[1] = <<PerPool, "(DOT,IBTC)">>
    /\ pushed[2] = <<PerPool, "(DOT,IBTC)">>
    /\ PoolTotal(buffer, store, "(DOT,IBTC)", "DOT") = 7
    /\ PoolTotal(buffer, store, "(DOT,IBTC)", "IBTC") = 10

(***************************************************************************)
(* Claim about the swap details (checked under SpecSwapDetails).           *)
(***************************************************************************)
\* The i-th amount of the arguments of the call.
AmountOfArgs(i) == [currency |-> arg0[i], atomicAmount |-> arg1[i]]

\* C31: createSwapDetailsAmounts, when it returns, gives one amount per
\* currency, in the order of its inputs; createPairWiseSwapDetails on n
\* amounts gives max(n - 1, 0) pairs, the i-th being (amounts[i],
\* amounts[i + 1]), so the 'to' of a pair is the 'from' of the next.
C31_PairsAreConsecutiveAmounts ==
    /\ (op = "createSwapDetailsAmounts" /\ res.ok)
          => /\ Len(res.val) = Len(arg0)
             /\ Len(res.val) = Len(arg1)
             /\ \A i \in 1..Len(arg0) : res.val[i] = AmountOfArgs(i)
    /\ op = "createPairWiseSwapDetails"
          => LET n == Len(arg0)
                 pairs == res.val
             IN  /\ Len(pairs) = (IF n >= 1 THEN n - 1 ELSE 0)
                 /\ DOMAIN pairs = 1..Len(pairs)
                 /\ \A i \in 1..Len(pairs) :
                       /\ pairs[i].from = AmountOfArgs(i)
                       /\ pairs[i].to = AmountOfArgs(i + 1)
                 /\ \A i \in 1..(Len(pairs) - 1) : pairs[i].to = pairs[i + 1].from

\* C31: the path DOT 3, IBTC 5, DOT 3 was paired: two pairs, the second
\* starting with the amount the first ends with.
C31_Witness ==
    /\ op = "createPairWiseSwapDetails"
    /\ arg0 = <<NativeToken("DOT"), NativeToken("IBTC"), NativeToken("DOT")>>
    /\ arg1 = <<3, 5, 3>>
    /\ Len(res.val) = 2
    /\ res.val[1].to = res.val[2].from
    /\ res.val[2].from = [currency |-> NativeToken("IBTC"), atomicAmount |-> 5]

(***************************************************************************)
(* Claim about the number of updates of a swap event (checked under Spec). *)
(***************************************************************************)
\* The number of pushEntity calls of a kind in the step's handler run.
PushesOf(kind) == Cardinality({i \in 1..Len(pushed') : pushed'[i][1] = kind})

\* The last known trade count of (kind, id).
TradeCount(buf, st, kind, id) ==
    LET latest == latestEntity(buf, st, kind, id)
    IN  IF latest = Undefined THEN 0 ELSE latest.count

\* The last known cumulative volume of (kind, id) in currency c.
VolumeOf(buf, st, kind, id, c) ==
    LET latest == latestEntity(buf, st, kind, id)
    IN  IF latest = Undefined THEN 0
        ELSE IF c \notin DOMAIN latest.amounts THEN 0
        ELSE latest.amounts[c]

\* The amounts of a swap event in currency c, each amount of the path once.
RECURSIVE PathVolume(_, _, _, _)
PathVolume(swapPath, balances, i, c) ==
    IF i > Len(swapPath) THEN 0
    ELSE (IF currencyToString(currencyId_encode(swapPath[i]).val) = Ok(c)
          THEN balances[i] ELSE 0)
         + PathVolume(swapPath, balances, i + 1, c)

\* C32: a processed swap event of k hops makes k per-pool volume updates and
\* exactly one update of each of the global volume, the volume per account,
\* the global trade count and the trade count per account: both counts grow
\* by one, and both volumes by the amounts of the path, each taken once.
C32_OneTradePerEvent ==
    [][(IsRunOf("dexGeneralAssetSwap") /\ res' = Returned)
          => LET swapPath == arg0'.args[3]
                 accountId == address_interlay_encode(arg0'.args[1])
             IN  /\ PushesOf(PerPool) = Len(swapPath) - 1
                 /\ \A k \in 1..4 : PushesOf(JoinKeys(accountId)[k][1]) = 1
                 /\ Len(pushed') = Len(swapPath) + 3
                 /\ \A k \in {3, 4} :
                       TradeCount(buffer', store', JoinKeys(accountId)[k][1],
                                  JoinKeys(accountId)[k][2])
                         = 1 + TradeCount(buffer, store, JoinKeys(accountId)[k][1],
                                          JoinKeys(accountId)[k][2])
                 /\ \A k \in {1, 2}, c \in VolumeCurrencies :
                       VolumeOf(buffer', store', JoinKeys(accountId)[k][1],
                                JoinKeys(accountId)[k][2], c)
                         = VolumeOf(buffer, store, JoinKeys(accountId)[k][1],
                                    JoinKeys(accountId)[k][2], c)
                           + PathVolume(swapPath, arg0'.args[4], 1, c)
      ]_vars

\* C32: a two-hop swap (DOT, IBTC, DOT) followed a one-hop swap in the same
\* batch: two trades are counted, and the last run pushed two per-pool
\* records and one record of each aggregate.
C32_Witness ==
    /\ op = "dexGeneralAssetSwap"
    /\ res = Returned
    /\ eventNo = 2
    /\ store = <<>>
    /\ Len(arg0.args[3]) = 3
    /\ Len(pushed) = 6
    /\ pushed[1][1] = PerPool /\ pushed[2][1] = PerPool
    /\ TradeCount(buffer, store, "CumulativeDexTradeCount", "total") = 2
    /\ TradeCount(buffer, store, "CumulativeDexTradeCountPerAccount",
                  address_interlay_encode(1)) = 2
    /\ VolumeOf(buffer, store, "CumulativeDexTradingVolume", "total", "DOT") = 10

(***************************************************************************)
(* Claim about a failing update (checked under SpecJoinFailing).           *)
(***************************************************************************)
\* The step ends a swap's handler run with an error of one of its updates.
IsFailedJoin == inflight # NoArg /\ inflight' = NoArg /\ ~res'.ok

\* C33: when one of the four updates of a swap event fails, none of the four
\* records is pushed (the buffer stays as the loop over the legs left it,
\* also when other updates had completed), the per-pool records of the
\* event's legs stay in the buffer, and the handler throws.
C33_FailedUpdateNotRolledBack ==
    [][IsFailedJoin
          => /\ buffer' = inflight.buffer
             /\ Len(pushed') = Len(inflight.poolPushes)
             /\ \A i \in 1..Len(pushed') : pushed'[i][1] = PerPool
             /\ buffer' = pushAll(buffer', inflight.poolPushes)
             /\ \A k \in 1..4 :
                   LET key == JoinKeys(inflight.accountId)[k]
                   IN  getEntity(buffer', key[1], key[2]) = getEntity(buffer, key[1], key[2])
             /\ op' = "dexGeneralAssetSwap"
             /\ eventNo' = eventNo + 1
      ]_vars

\* C33: the first swap of a batch (DOT 3 -> IBTC 5) failed in its last update
\* after the three others had completed: the pool's volume is in the buffer,
\* the global volume and the trade count are not.
C33_Witness ==
    /\ op = "dexGeneralAssetSwap"
    /\ ~res.ok
    /\ eventNo = 1
    /\ inflight = NoArg
    /\ Len(arg1) = 3
    /\ PoolTotal(buffer, store, "(DOT,IBTC)", "DOT") = 3
    /\ VolumeOf(buffer, store, "CumulativeDexTradingVolume", "total", "DOT") = 0
    /\ TradeCount(buffer, store, "CumulativeDexTradeCount", "total") = 0
    /\ DOMAIN buffer = {<<PerPool, "(DOT,IBTC)">>}

(***************************************************************************)
(* Claims about the state of a market (checked under SpecMarkets).         *)
(***************************************************************************)
\* The last known record of the market of the event's asset: pending, else
\* stored, else Undefined.
MarketOf(buf, st, rawEvent) ==
    latestEntity(buf, st, "LoanMarket", MarketIdOf(MarketAssetOf(rawEvent)))

\* C34: a processed market-updated event leaves the state of a known market
\* as it was, or sets it to Supervision when the event says Supervision; a
\* market that was Active is not Pending afterwards and keeps its activation.
C34_StateMovesForward ==
    [][(IsRunOf("updatedMarket") /\ res' = Returned
        /\ MarketOf(buffer, store, arg0') # Undefined)
          => LET before == MarketOf(buffer, store, arg0')
                 after == MarketOf(buffer', store', arg0')
                 says == decodeMarket(arg0').market.state.kind
             IN  /\ after.state = before.state
                    \/ (after.state = "Supervision" /\ says = "Supervision")
                 /\ before.state = "Active"
                       => /\ after.state # "Pending"
                          /\ after.activation # Undefined
      ]_vars

\* The step is a run of activatedMarket on a recognized event for an asset
\* whose market is known, pending in the buffer or stored.
IsActivationOfKnownMarket ==
    /\ IsRunOf("activatedMarket")
    /\ isV1020000(arg0') \/ isV1021000(arg0')
    /\ MarketOf(buffer, store, arg0') # Undefined

\* C35: a market-activated event for an asset whose market was created
\* before, flushed to the store or still pending in the buffer, returns,
\* emits one activation record and leaves the market Active.
C35_ActivationSeesPendingMarket ==
    [][IsActivationOfKnownMarket
          => /\ res' = Returned
             /\ Cardinality({i \in 1..Len(pushed') :
                                pushed'[i][1] = "LoanMarketActivation"}) = 1
             /\ MarketOf(buffer', store', arg0').state = "Active"
      ]_vars

(***************************************************************************)
(* Claim about the canonical strings (checked under SpecOrder).            *)
(***************************************************************************)
\* C36: two different assets never have the same canonical string, pair
\* tokens included, and two different unordered pairs of assets never have
\* the same standard-pool key.
C36_StringKeyInjective ==
    /\ (op = "currencyToString" /\ res.ok /\ currencyToString(arg1) = res)
          => arg0 = arg1
    /\ (op = "inferGeneralPoolId" /\ res.ok)
          => \A c \in Currencies, d \in Currencies :
                inferGeneralPoolId(c, d) = res => {c, d} = {arg0, arg1}

\* C36: the pair tokens (DOT, asset 1) and (asset 1, DOT), two different
\* assets, were written as two different strings.
C36_Witness ==
    /\ op = "currencyToString"
    /\ arg0 = LpTokenPair(NativeToken("DOT"), ForeignAsset(1))
    /\ arg1 = LpTokenPair(ForeignAsset(1), NativeToken("DOT"))
    /\ res = Ok("lpToken__DOT__1")
    /\ currencyToString(arg1) = Ok("lpToken__1__DOT")
====
